---- MODULE Spec2Model ----
(***************************************************************************)
(* Isolated document indexing and retrieval pipeline of alexandralex       *)
(* (src/app/rag_system.py, src/app/rag_langchain.py, src/upload.py).       *)
(*                                                                         *)
(* Conventions                                                             *)
(*  - A Python string built by an f-string "a_b_c" is the sequence of its  *)
(*    "_"-separated tokens <<"a","b","c">>; two such strings are equal     *)
(*    exactly when their token sequences are.  None and "" (both falsy)    *)
(*    are the empty sequence.                                              *)
(*  - A chunk text is a natural number (its content); equal numbers are    *)
(*    equal texts.  A document is given by what the chunker returns for    *)
(*    it (its sequence of chunk texts) and by whether text.strip() is      *)
(*    empty.                                                               *)
(*  - A similarity score is an integer number of hundredths (0.5 = 50).    *)
(*  - The vector store (Pinecone) is a function from namespace to the set  *)
(*    of records held there, at most one per id.                           *)
(***************************************************************************)
EXTENDS Integers, Sequences, FiniteSets, TLC

VARIABLES
    index,   \* the Pinecone index: namespace -> set of vector records
    last     \* what the latest call did and returned, and how it
             \* follows the call before it

vars == <<index, last>>

None == <<>>

(***************************************************************************)
(* Bounds of the model.                                                    *)
(***************************************************************************)
\* (sindico_id, condo_id) pairs; (0, 0) is the shared knowledge base.
Tenants == {<<0, 0>>, <<1, 1>>}

\* Documents: blank = (text.strip() is empty), chunks = what the chunker
\* returns.  A blank text has no chunk; a sliding-window split of a non-blank
\* text has at least one; the structured split of a legal document can drop
\* every paragraph (each <= 50 characters) and return none.
\* Chunk texts are numbered: Doc(n) is a non-blank text split into the
\* chunks 1..n.
Doc(n) == [blank |-> FALSE, chunks |-> [i \in 1..n |-> i]]

\* the longest document ingested under Spec, in chunks
MaxChunks == 2

Docs ==
    { [blank |-> TRUE,  chunks |-> <<>>],
      [blank |-> FALSE, chunks |-> <<>>],
      Doc(MaxChunks) }

\* The arguments an ingestion is called with besides the text and the tenant.
Calls ==
    { [doc_id |-> <<"d1">>, metadata |-> <<"f1">>, title |-> None,    category |-> None],
      [doc_id |-> None,     metadata |-> None,     title |-> <<"T">>, category |-> None] }

(***************************************************************************)
(* Identifiers.                                                            *)
(***************************************************************************)
namespace_for(sindico_id, condo_id) ==
    <<"user", ToString(sindico_id), "cond", ToString(condo_id)>>

Namespaces == { namespace_for(t[1], t[2]) : t \in Tenants }

\* hashlib.md5(text.encode()).hexdigest()[:8]: one token, a function of the text
content_hash(text) == "h" \o ToString(text)

\* f"{doc_id}_{content_hash}_{i}" with the 0-based position i
vector_id(ident, text, i) == ident \o <<content_hash(text), ToString(i)>>

(***************************************************************************)
(* The vector store backend.                                               *)
(***************************************************************************)
fetch(store, namespace, id) == { r \in store[namespace] : r.id = id }

upsert(store, namespace, vectors) ==
    [store EXCEPT ![namespace] =
        { r \in @ : \A v \in vectors : v.id # r.id } \cup vectors]

delete(store, namespace, ids) ==
    [store EXCEPT ![namespace] = { r \in @ : r.id \notin ids }]

(***************************************************************************)
(* Sequence helpers.                                                       *)
(***************************************************************************)
Range(s) == { s[i] : i \in 1..Len(s) }

\* the positions 1..n that satisfy keep, in ascending order
Positions(n, keep) == SelectSeq([i \in 1..n |-> i], LAMBDA i : i \in keep)

(***************************************************************************)
(* Ingestion.  The backend failures of one call are an input:              *)
(*   fail.probe  the chunk positions whose index.fetch raises,             *)
(*   fail.embed  k > 0 when the k-th embeddings.create call raises,        *)
(*   fail.upsert b > 0 when the b-th index.upsert call raises.             *)
(* Every operator returns the store it leaves and the result it returns,   *)
(* with a trace of the backend calls it made.                              *)
(***************************************************************************)
batch_size == 50

\* an embedding loop that goes on to the remaining texts after a failure
embed_all(n, failAt) ==
    IF failAt \in 1..n THEN [raised |-> TRUE,  calls |-> n, failed |-> failAt]
                       ELSE [raised |-> FALSE, calls |-> n, failed |-> 0]

\* _embed: one embeddings.create call per text, in order; the first failure
\* is re-raised.  calls = how many calls were issued, failed = the call
\* that raised (0 when none did).
embed(n, failAt) ==
    IF failAt \in 1..n THEN [raised |-> TRUE,  calls |-> failAt, failed |-> failAt]
                       ELSE [raised |-> FALSE, calls |-> n, failed |-> 0]

\* The result of an ingestion that made no backend call, with its trace:
\*   probe_failed, skipped  positions whose probe raised / found a record
\*   embed_calls            positions sent to embeddings.create
\*   embed_failed_at        the position whose embedding call raised, or 0
\*   upsert_calls, sent     index.upsert calls issued, positions they carried
\*   written                ids of the vectors the store took
\*   follows                how the call follows the one before (see follows)
Returned(s, c, d, call, mode, success, error) ==
    [ op |-> "ingest", sindico_id |-> s, condo_id |-> c, doc |-> d, call |-> call,
      mode |-> mode, success |-> success, error |-> error,
      chunks_created |-> 0, embeddings_created |-> 0,
      probe_failed |-> {}, skipped |-> {},
      embed_calls |-> {}, embed_failed_at |-> 0,
      upsert_calls |-> 0, sent |-> {}, written |-> {},
      follows |-> "fresh" ]

\* a dedup loop that takes a chunk whose probe raised as already stored
dedup_closed(store, namespace, check_ids, probe_failed) ==
    LET n == Len(check_ids)
        existing == { i \in 1..n :
                        \/ i \in probe_failed
                        \/ fetch(store, namespace, check_ids[i]) # {} }
    IN  [ skipped |-> existing \ probe_failed,
          unique_indices |-> Positions(n, (1..n) \ existing) ]

\* a dedup loop that keeps for embedding the chunks it found stored
dedup_none(store, namespace, check_ids, probe_failed) ==
    LET n == Len(check_ids)
        existing == { i \in (1..n) \ probe_failed :
                        fetch(store, namespace, check_ids[i]) # {} }
    IN  [ skipped |-> existing,
          unique_indices |-> Positions(n, 1..n) ]

\* the dedup loop shared by both modes: check_ids[i] is the id probed for
\* the i-th chunk; the positions kept for embedding are those whose probe
\* raised or found nothing
dedup(store, namespace, check_ids, probe_failed) ==
    LET n == Len(check_ids)
        existing == { i \in (1..n) \ probe_failed :
                        fetch(store, namespace, check_ids[i]) # {} }
    IN  [ skipped |-> existing,
          unique_indices |-> Positions(n, (1..n) \ existing) ]

\* upsert_texts, as process_txt_content calls it in the title/category mode
upsert_texts(store, s, c, d, call, fail) ==
    LET namespace == namespace_for(s, c)
        texts == d.chunks
        filename == IF call.title # None THEN call.title ELSE <<"documento.txt">>
        title == IF call.title # None THEN call.title ELSE <<"Documento">>
        probe_failed == fail.probe \cap (1..Len(texts))
        dd == dedup(store, namespace,
                    [ i \in 1..Len(texts) |-> vector_id(filename, texts[i], 0) ],
                    probe_failed)
        unique_texts == dd.unique_indices
        n == Len(unique_texts)
        e == embed(n, fail.embed)
        vectors == { [ id |-> vector_id(filename, texts[unique_texts[k]], k - 1),
                       text |-> texts[unique_texts[k]],
                       filename |-> filename, title |-> title,
                       sindico_id |-> s, condo_id |-> c,
                       doc_id |-> None ] : k \in 1..n }
        probed(success, error) ==
            [ Returned(s, c, d, call, "new", success, error) EXCEPT
                !.probe_failed = probe_failed, !.skipped = dd.skipped ]
        embedded(success, error) ==
            [ probed(success, error) EXCEPT
                !.embed_calls = { unique_texts[k] : k \in 1..e.calls },
                !.embed_failed_at = IF e.raised THEN unique_texts[e.failed] ELSE 0 ]
        upserted(success, error) ==
            [ embedded(success, error) EXCEPT
                !.upsert_calls = 1, !.sent = Range(unique_texts) ]
    IN  IF texts = <<>>
        THEN [ store |-> store,
               res |-> Returned(s, c, d, call, "new", FALSE, "no_texts") ]
        ELSE IF n = 0
        THEN [ store |-> store, res |-> probed(TRUE, "none") ]
        ELSE IF e.raised
        THEN [ store |-> store, res |-> embedded(FALSE, "embed") ]
        ELSE IF fail.upsert = 1
        THEN [ store |-> store, res |-> upserted(FALSE, "upsert") ]
        ELSE [ store |-> upsert(store, namespace, vectors),
               res |-> [ upserted(TRUE, "none") EXCEPT
                           !.chunks_created = n, !.embeddings_created = n,
                           !.written = { v.id : v \in vectors } ] ]

\* a store that rolls the earlier batches back when a later upsert fails
kept_or_rolled_back(n, done) == IF done * batch_size < n THEN 0 ELSE n

\* the vectors the store holds of n sent in batches of batch_size when only
\* the first done upsert calls returned: nothing is rolled back
kept(n, done) == IF done * batch_size < n THEN done * batch_size ELSE n

\* process_txt_content / process_pdf_content in the original mode
\* (doc_id + metadata): dedup, embed, upsert in batches of batch_size
original_mode(store, now, s, c, d, call, fail) ==
    LET namespace == namespace_for(s, c)
        chunks == d.chunks
        doc_id == IF call.doc_id # None THEN call.doc_id
                                        ELSE <<"doc", ToString(now)>>
        probe_failed == fail.probe \cap (1..Len(chunks))
        dd == dedup(store, namespace,
                    [ i \in 1..Len(chunks) |-> vector_id(doc_id, chunks[i], i - 1) ],
                    probe_failed)
        unique_indices == dd.unique_indices
        n == Len(unique_indices)
        e == embed(n, fail.embed)
        vector(k) == [ id |-> vector_id(doc_id, chunks[unique_indices[k]],
                                        unique_indices[k] - 1),
                       text |-> chunks[unique_indices[k]],
                       filename |-> call.metadata, title |-> None,
                       sindico_id |-> s, condo_id |-> c,
                       doc_id |-> doc_id ]
        batches == (n + batch_size - 1) \div batch_size
        \* the upsert calls issued, and those of them that returned
        issued == IF fail.upsert \in 1..batches THEN fail.upsert ELSE batches
        done == IF fail.upsert \in 1..batches THEN fail.upsert - 1 ELSE batches
        stored == { vector(k) : k \in 1..kept(n, done) }
        probed(success, error) ==
            [ Returned(s, c, d, call, "original", success, error) EXCEPT
                !.probe_failed = probe_failed, !.skipped = dd.skipped ]
        embedded(success, error) ==
            [ probed(success, error) EXCEPT
                !.embed_calls = { unique_indices[k] : k \in 1..e.calls },
                !.embed_failed_at = IF e.raised THEN unique_indices[e.failed] ELSE 0 ]
        upserted(success, error) ==
            [ embedded(success, error) EXCEPT
                !.upsert_calls = issued,
                !.sent = { unique_indices[k] :
                             k \in 1..(IF issued * batch_size < n
                                        THEN issued * batch_size ELSE n) },
                !.written = { v.id : v \in stored } ]
    IN  IF n = 0
        THEN [ store |-> store, res |-> probed(TRUE, "none") ]
        ELSE IF e.raised
        THEN [ store |-> store, res |-> embedded(FALSE, "embed") ]
        ELSE [ store |-> upsert(store, namespace, stored),
               res |-> IF done < batches
                       THEN upserted(FALSE, "upsert")
                       ELSE [ upserted(TRUE, "none") EXCEPT
                                !.chunks_created = n, !.embeddings_created = n ] ]

\* the mode test of process_txt_content / process_pdf_content
new_mode(call) ==
    /\ (call.title # None \/ call.category # None)
    /\ (call.metadata = None \/ call.doc_id = None)

\* an ingestion without the test for a blank text
process_unchecked(store, now, s, c, d, call, fail) ==
    IF new_mode(call)
    THEN upsert_texts(store, s, c, d, call, fail)
    ELSE original_mode(store, now, s, c, d, call, fail)

\* process_txt_content; process_pdf_content is the same after its text
\* extraction
process_txt_content(store, now, s, c, d, call, fail) ==
    IF d.blank
    THEN [ store |-> store, res |-> Returned(s, c, d, call, "none", FALSE, "empty") ]
    ELSE IF new_mode(call)
    THEN upsert_texts(store, s, c, d, call, fail)
    ELSE original_mode(store, now, s, c, d, call, fail)

\* the failures one ingestion of d can meet
Failures(d) ==
    [ probe : SUBSET (1..Len(d.chunks)),
      embed : 0..Len(d.chunks),
      upsert : 0..((Len(d.chunks) + batch_size - 1) \div batch_size) ]

\* How an ingestion follows the call before it: "fresh" when that call was
\* not an ingestion of the same document with the same arguments for the same
\* tenant, else what that ingestion ended as: "success", "partial" (an
\* upsert failed after earlier batches were stored) or "failed".
follows(before, s, c, d, call) ==
    IF before.op = "ingest" /\ before.sindico_id = s /\ before.condo_id = c
       /\ before.doc = d /\ before.call = call
    THEN IF before.success THEN "success"
         ELSE IF before.written # {} THEN "partial" ELSE "failed"
    ELSE "fresh"

\* one call of process_txt_content or process_pdf_content
IngestOp(t, d, call, now, fail) ==
    /\ fail.embed > 0 => fail.upsert = 0
    /\ LET out == process_txt_content(index, now, t[1], t[2], d, call, fail)
       IN  /\ index' = out.store
           /\ last' = [ out.res EXCEPT
                          !.follows = follows(last, t[1], t[2], d, call) ]

\* every call of Calls names its document by doc_id or by title, so the
\* clock is not read and stands at 0
Ingest ==
    \E t \in Tenants, d \in Docs, call \in Calls :
        \E fail \in Failures(d) : IngestOp(t, d, call, 0, fail)

(***************************************************************************)
(* Deletion.                                                               *)
(***************************************************************************)
\* range(100): "Assumindo maximo de 100 chunks"
max_delete == 100

\* delete_document: the ids f"{doc_id}_{i}" for i in range(100)
delete_document(store, doc_id, s, c, raises) ==
    LET namespace == namespace_for(s, c)
        ids_to_delete == { doc_id \o <<ToString(i)>> : i \in 0..(max_delete - 1) }
    IN  IF raises
        THEN [ store |-> store,
               res |-> [ op |-> "delete", sindico_id |-> s, condo_id |-> c,
                         doc_id |-> doc_id, success |-> FALSE ] ]
        ELSE [ store |-> delete(store, namespace, ids_to_delete),
               res |-> [ op |-> "delete", sindico_id |-> s, condo_id |-> c,
                         doc_id |-> doc_id, success |-> TRUE ] ]

\* the document identifiers delete_document is called with
DeleteIds == { <<"d1">> }

DeleteOp(t, doc_id, raises) ==
    /\ LET out == delete_document(index, doc_id, t[1], t[2], raises)
       IN  /\ index' = out.store
           /\ last' = out.res

Delete ==
    \E t \in Tenants, doc_id \in DeleteIds, raises \in BOOLEAN :
        DeleteOp(t, doc_id, raises)

(***************************************************************************)
(* Query.  A match is [rec |-> the stored record, score |-> its score].    *)
(* The backend failures of one call are an input: fail.embed = e or        *)
(* fail.search = e when that call of the e-th expanded query raises,       *)
(* fail.chat when chat.completions.create raises.                          *)
(***************************************************************************)
\* top_k of index.query (k = 30) and the cut of the ranked matches ([:12])
top_k == 30
top_n == 12

\* s sorted by descending score, equal scores in the order they have in s:
\* list.sort(key=score, reverse=True) is stable
RECURSIVE sort_by_score(_)
sort_by_score(s) ==
    IF Len(s) <= 1 THEN s
    ELSE LET rest == sort_by_score(Tail(s))
             above == Cardinality({ i \in 1..Len(rest) : rest[i].score > Head(s).score })
         IN  SubSeq(rest, 1, above) \o <<Head(s)>> \o SubSeq(rest, above + 1, Len(rest))

\* the records of a set in the order the vector store lists them
RECURSIVE Enumerate(_)
Enumerate(S) ==
    IF S = {} THEN <<>>
    ELSE LET r == CHOOSE x \in S : TRUE IN <<r>> \o Enumerate(S \ {r})

\* The similarity of a stored text to a query vector.  sim is the pattern
\* of scores, in hundredths, that the texts 1, 2, 3, ... take in turn.
similarity(sim, text) == sim[((text - 1) % Len(sim)) + 1]

\* a search that ignores the namespace it is given
index_query_anywhere(store, namespace, sim, k) ==
    LET held == Enumerate(UNION { store[ns] : ns \in DOMAIN store })
        ranked == sort_by_score([ i \in 1..Len(held) |->
                                    [rec |-> held[i],
                                     score |-> similarity(sim, held[i].text)] ])
    IN  SubSeq(ranked, 1, IF Len(ranked) < k THEN Len(ranked) ELSE k)

\* index.query(vector, top_k, namespace): the k records of the namespace
\* nearest to the vector, best first
index_query(store, namespace, sim, k) ==
    LET held == Enumerate(store[namespace])
        ranked == sort_by_score([ i \in 1..Len(held) |->
                                    [rec |-> held[i],
                                     score |-> similarity(sim, held[i].text)] ])
    IN  SubSeq(ranked, 1, IF Len(ranked) < k THEN Len(ranked) ELSE k)

RECURSIVE Flatten(_)
Flatten(ss) == IF ss = <<>> THEN <<>> ELSE Head(ss) \o Flatten(Tail(ss))

\* the seen_ids loop: over the expansions in order and the matches of each in
\* order, a match is kept when its id was not seen before
\* a merge in which a later match of an id replaces the earlier one
merge_matches_last(results) ==
    LET flat == Flatten(results)
        final == { i \in 1..Len(flat) :
                     \A j \in (i + 1)..Len(flat) : flat[j].rec.id # flat[i].rec.id }
    IN  [ k \in 1..Cardinality(final) |-> flat[Positions(Len(flat), final)[k]] ]

\* a merge that keeps for each id the best score any expansion returned
merge_matches_best(results) ==
    LET flat == Flatten(results)
        first == { i \in 1..Len(flat) :
                     \A j \in 1..(i - 1) : flat[j].rec.id # flat[i].rec.id }
        best(id) == CHOOSE x \in { flat[j].score : j \in { n \in 1..Len(flat) :
                                                              flat[n].rec.id = id } } :
                        \A j \in 1..Len(flat) :
                            flat[j].rec.id = id => flat[j].score <= x
    IN  [ k \in 1..Cardinality(first) |->
            [ rec |-> flat[Positions(Len(flat), first)[k]].rec,
              score |-> best(flat[Positions(Len(flat), first)[k]].rec.id) ] ]

merge_matches(results) ==
    LET flat == Flatten(results)
        first == { i \in 1..Len(flat) :
                     \A j \in 1..(i - 1) : flat[j].rec.id # flat[i].rec.id }
    IN  [ k \in 1..Cardinality(first) |-> flat[Positions(Len(flat), first)[k]] ]

KnowledgeBase == <<"user", "0", "cond", "0">>

\* 0.35 if namespace == "user_0_cond_0" else 0.5, in hundredths
threshold(namespace) == IF namespace = KnowledgeBase THEN 35 ELSE 50

\* a filter that lets every candidate pass
filter_matches_all(all_matches, namespace) == all_matches

\* a filter that lets a score equal to the threshold pass
filter_matches_inclusive(all_matches, namespace) ==
    SelectSeq(all_matches, LAMBDA m : m.score >= threshold(namespace))

filter_matches(all_matches, namespace) ==
    SelectSeq(all_matches, LAMBDA m : m.score > threshold(namespace))

top_matches(filtered_matches) ==
    LET sorted == sort_by_score(filtered_matches)
    IN  SubSeq(sorted, 1, IF Len(sorted) < top_n THEN Len(sorted) ELSE top_n)

\* md.get('full_text', md.get('text', '')): text 0 is the empty string
chunk_text(rec) == rec.text

\* md.get("filename", md.get("title", "Documento"))
source_name(rec) ==
    IF rec.filename # None THEN rec.filename
    ELSE IF rec.title # None THEN rec.title ELSE <<"Documento">>

\* the matches whose text goes into the context
context_matches(top) == SelectSeq(top, LAMBDA m : chunk_text(m.rec) # 0)

\* list(sources)[:5]: sources is a Python set of strings, whose iteration
\* order is not fixed by the program, so the list is any arrangement of any
\* five of the names (of all of them when there are fewer)
max_sources == 5

SourceLists(names) ==
    LET n == IF Cardinality(names) < max_sources
             THEN Cardinality(names) ELSE max_sources
    IN  { l \in [1..n -> names] :
            \A i \in 1..n, j \in 1..n : l[i] = l[j] => i = j }

\* the namespace a query searches
query_namespace(s, c, namespace_arg) ==
    IF namespace_arg # None THEN namespace_arg ELSE namespace_for(s, c)

\* what index.query returns for each expanded query, in expansion order
search_results(store, namespace, sims) ==
    [ e \in 1..Len(sims) |-> index_query(store, namespace, sims[e], top_k) ]

\* The answers of RAGSystem.query (accents dropped).  An exception is given
\* by its text str(e); the answer of the except branch is the f-string
\* "Erro ao processar busca: {str(e)}", the prefix followed by that text.
NoMatchesAnswer == <<"Nao encontrei informacoes relevantes nos documentos.">>

BelowThresholdAnswer == <<"Nao encontrei informacoes suficientemente relevantes.">>

\* response.choices[0].message.content
GeneratedAnswer == <<"message.content">>

\* str(e) of the exception a failed backend call raises
exception(backend_call) == <<"exception of", backend_call>>

ErrorAnswer(e) == <<"Erro ao processar busca: ">> \o e

\* The result of a query that made no backend call, with its trace: what
\* index.query returned for each expanded query (results), the merged
\* candidates (all_matches), the ranked cut (top_matches), the matches
\* whose text entered the context, the backend calls made, the exception a
\* backend call raised (failed, None when none did) and whether the call
\* raised to its caller instead of returning.
Answered(s, c, namespace_arg, success, answer) ==
    [ op |-> "query", sindico_id |-> s, condo_id |-> c,
      namespace_arg |-> namespace_arg,
      namespace |-> query_namespace(s, c, namespace_arg),
      success |-> success, answer |-> answer,
      sources |-> <<>>, confidence |-> 0,
      results |-> <<>>,
      all_matches |-> <<>>, top_matches |-> <<>>, context |-> <<>>,
      embed_calls |-> 0, searches |-> 0, chat_calls |-> 0,
      failed |-> None, raised_to_caller |-> FALSE ]

\* a query without its except branch: the exception goes to the caller
no_handler(s, c, namespace_arg, e) ==
    [ Answered(s, c, namespace_arg, FALSE, None) EXCEPT
        !.failed = e, !.raised_to_caller = TRUE ]

\* the except branch of RAGSystem.query
except_handler(s, c, namespace_arg, e) ==
    [ Answered(s, c, namespace_arg, FALSE, ErrorAnswer(e)) EXCEPT !.failed = e ]

\* RAGSystem.query.  sims[e] gives the similarities to the e-th expanded
\* query; sources is the list(sources)[:5] the call ends with.
query(store, s, c, namespace_arg, sims, fail, sources) ==
    LET namespace == query_namespace(s, c, namespace_arg)
        nq == Len(sims)
        all_matches == merge_matches(search_results(store, namespace, sims))
        filtered_matches == filter_matches(all_matches, namespace)
        top == top_matches(filtered_matches)
        context == context_matches(top)
        raised(backend_call, embeds, searches, chats) ==
            [ except_handler(s, c, namespace_arg, exception(backend_call)) EXCEPT
                !.embed_calls = embeds, !.searches = searches,
                !.chat_calls = chats ]
        searched(success, answer) ==
            [ Answered(s, c, namespace_arg, success, answer) EXCEPT
                !.results = search_results(store, namespace, sims),
                !.all_matches = all_matches,
                !.embed_calls = nq, !.searches = nq ]
        ranked(success, answer) ==
            [ searched(success, answer) EXCEPT
                !.top_matches = top, !.context = context, !.chat_calls = 1 ]
    IN  IF fail.embed \in 1..nq /\ (fail.search \notin 1..nq \/ fail.embed <= fail.search)
        THEN raised("embeddings.create", fail.embed, fail.embed - 1, 0)
        ELSE IF fail.search \in 1..nq
        THEN raised("index.query", fail.search, fail.search, 0)
        ELSE IF all_matches = <<>>
        THEN searched(FALSE, NoMatchesAnswer)
        ELSE IF filtered_matches = <<>>
        THEN searched(FALSE, BelowThresholdAnswer)
        ELSE IF fail.chat
        THEN raised("chat.completions.create", nq, nq, 1)
        ELSE [ ranked(TRUE, GeneratedAnswer) EXCEPT
                 !.sources = sources, !.confidence = top[1].score ]

\* the source names of the context, from which list(sources)[:5] is taken
context_sources(store, namespace, sims) ==
    { source_name(m.rec) :
        m \in Range(context_matches(top_matches(filter_matches(
                 merge_matches(search_results(store, namespace, sims)),
                 namespace)))) }

QueryOp(t, namespace_arg, sims, fail) ==
    /\ \E sources \in SourceLists(context_sources(index,
                        query_namespace(t[1], t[2], namespace_arg), sims)) :
          last' = query(index, t[1], t[2], namespace_arg, sims, fail, sources)
    /\ UNCHANGED index

\* the similarity patterns of one expanded query: 30 is below both
\* thresholds, 40 between them, 60 above both
Sims == { <<30, 30>>, <<40, 40>>, <<60, 30>>, <<40, 60>>, <<60, 60>> }

\* the expanded queries of one call, each given by its similarities
SimSeqs == { <<sim>> : sim \in Sims } \cup { << <<40, 60>>, <<60, 30>> >> }

\* the failures one query can meet
QueryFailures ==
    { [embed |-> 0, search |-> 0, chat |-> FALSE],
      [embed |-> 1, search |-> 0, chat |-> FALSE],
      [embed |-> 0, search |-> 1, chat |-> FALSE],
      [embed |-> 0, search |-> 0, chat |-> TRUE] }

Query ==
    \E t \in Tenants, namespace_arg \in {None} \cup Namespaces,
       sims \in SimSeqs, fail \in QueryFailures :
        /\ namespace_arg # namespace_for(t[1], t[2])
        /\ (fail.embed > 0 \/ fail.search > 0) => sims = << <<30, 30>> >>
        /\ QueryOp(t, namespace_arg, sims, fail)

(***************************************************************************)
(* The query of IsolatedLangChainRAG, which the API endpoints call.  It    *)
(* reads the same Pinecone index.                                          *)
(***************************************************************************)
langchain_k == 10

\* the answers of IsolatedLangChainRAG.query (accents dropped): the answer
\* of its except branch is the f-string "Erro ao processar: {str(e)}"
NothingFoundAnswer ==
    <<"Nao encontrei informacoes sobre isso nos documentos do condominio.">>

LangchainErrorAnswer(e) == <<"Erro ao processar: ">> \o e

\* IsolatedLangChainRAG.query: one search of namespace_for(s, c); every
\* match with a text goes into the context; success even with no context.
\* raises: a backend call of the query raises.
langchain_query(store, s, c, sim, raises) ==
    LET namespace == namespace_for(s, c)
        matches == index_query(store, namespace, sim, langchain_k)
        context == SelectSeq(matches, LAMBDA m : chunk_text(m.rec) # 0)
        e == exception("embeddings.create")
    IN  IF raises
        THEN [ op |-> "langchain_query", sindico_id |-> s, condo_id |-> c,
               namespace |-> namespace, success |-> FALSE,
               answer |-> LangchainErrorAnswer(e), failed |-> e,
               all_matches |-> <<>>, context |-> <<>> ]
        ELSE [ op |-> "langchain_query", sindico_id |-> s, condo_id |-> c,
               namespace |-> namespace, success |-> TRUE,
               answer |-> <<"Fonte: Documentos do Condominio">>
                             \o (IF context = <<>> THEN NothingFoundAnswer
                                                    ELSE GeneratedAnswer),
               failed |-> None,
               all_matches |-> matches, context |-> context ]

LangchainQueryOp(t, sim, raises) ==
    /\ last' = langchain_query(index, t[1], t[2], sim, raises)
    /\ UNCHANGED index

LangchainQuery ==
    \E t \in Tenants, sim \in Sims, raises \in BOOLEAN :
        /\ raises => sim = <<30, 30>>
        /\ LangchainQueryOp(t, sim, raises)

NoCall == [op |-> "none"]

Init ==
    /\ index = [ns \in Namespaces |-> {}]
    /\ last = NoCall

Next == Ingest \/ Delete \/ Query \/ LangchainQuery

Spec == Init /\ [][Next]_vars

(***************************************************************************)
(* Ingestion in several upsert batches: documents longer than batch_size,  *)
(* ingested with doc_id and metadata into one namespace.                   *)
(***************************************************************************)
\* the longest document ingested under SpecBatch, in full batches
MaxBatches == 2

BatchDocs == { Doc(b * batch_size + 1) : b \in 1..MaxBatches }

BatchCall ==
    [doc_id |-> <<"d1">>, metadata |-> <<"f1">>, title |-> None, category |-> None]

BatchTenant == <<1, 1>>

\* the failures one ingestion of d meets under SpecBatch
BatchFailures(d) ==
    [ probe : { {}, {1}, {Len(d.chunks)} },
      embed : {0, 2},
      upsert : 0..((Len(d.chunks) + batch_size - 1) \div batch_size) ]

IngestBatch ==
    \E d \in BatchDocs : \E fail \in BatchFailures(d) :
        IngestOp(BatchTenant, d, BatchCall, 0, fail)

DeleteBatch ==
    \E raises \in BOOLEAN : DeleteOp(BatchTenant, BatchCall.doc_id, raises)

NextBatch == IngestBatch \/ DeleteBatch

SpecBatch == Init /\ [][NextBatch]_vars

(***************************************************************************)
(* Retrieval over namespaces that hold more records than one search        *)
(* returns and more than the context takes.                                *)
(***************************************************************************)
\* the longest document ingested under SpecRetrieve has this many chunks
\* more than top_k
OverTopK == 2

RetrieveDocs == { Doc(3), Doc(top_k + OverTopK) }

IngestRetrieve ==
    \E t \in Tenants, d \in RetrieveDocs :
        IngestOp(t, d, BatchCall, 0, [probe |-> {}, embed |-> 0, upsert |-> 0])

\* similarity scores in hundredths: below both thresholds, the two
\* thresholds themselves, and above both
RetrieveScores == {30, 35, 50, 60, 90}

\* the similarity patterns of the first expanded query
RetrievePatterns ==
    { sim \in [1..3 -> RetrieveScores] : sim[1] >= sim[2] /\ sim[2] >= sim[3] }

\* the expanded queries of one call under SpecRetrieve
RetrieveSimSeqs ==
    { <<sim>> : sim \in RetrievePatterns }
        \cup { <<sim, <<60, 90, 30>> >> :
                 sim \in { <<90, 60, 30>>, <<50, 35, 30>>, <<30, 30, 30>> } }
        \cup { << <<50, 35, 30>>, <<30, 60, 90>>, <<90, 90, 35>> >> }

QueryRetrieve ==
    \E t \in Tenants, sims \in RetrieveSimSeqs, chat \in BOOLEAN :
        /\ chat => Len(sims) = 2
        /\ QueryOp(t, None, sims, [embed |-> 0, search |-> 0, chat |-> chat])

NextRetrieve == IngestRetrieve \/ QueryRetrieve

SpecRetrieve == Init /\ [][NextRetrieve]_vars

(***************************************************************************)
(* Upload of a file: process_upload of upload.py, which ingests the file   *)
(* in the original mode under a doc_id made of the cleaned file name, the  *)
(* tenant pair and the clock.                                              *)
(***************************************************************************)
\* the last second the clock of an upload can show
MaxNow == 1

\* File names that pass validate_filename.
Filenames == { "Ata 1.txt", "ata_1.txt" }

\* clean_filename_for_id: blanks and other symbols become "_", runs of "_"
\* collapse, the name is lower-cased
clean_filename_for_id(filename) ==
    CASE filename = "Ata 1.txt" -> "ata_1.txt"
      [] filename = "ata_1.txt" -> "ata_1.txt"

\* f"{clean_name}_s{sindico_id}_c{condo_id}_{int(datetime.now().timestamp())}"
generated_doc_id(filename, s, c, now) ==
    << clean_filename_for_id(filename), "s" \o ToString(s), "c" \o ToString(c),
       ToString(now) >>

\* raise HTTPException(status_code, detail)
HTTPException(status_code, detail) ==
    [ raised |-> TRUE, status_code |-> status_code, detail |-> detail ]

\* the checks of process_upload before the backend is called, with the
\* HTTPException of each; "none": the file passes them all
Rejections ==
    [ none |-> HTTPException(200, None),
      filename |-> HTTPException(400, <<"Use apenas letras (sem acentos)">>),
      type |-> HTTPException(400, <<"Tipo de arquivo nao suportado">>),
      limit |-> HTTPException(400, <<"Limite maximo de 20 documentos">>),
      size |-> HTTPException(400, <<"Arquivo muito grande">>),
      condominium |-> HTTPException(404, <<"Condominio nao encontrado ou sem permissao">>) ]

\* the detail of the HTTPException raised when chunks_created is 0
NoTextDetail == <<"Documento vazio ou sem texto extraivel">>

\* the detail of the HTTPException of the generic except branch
UploadErrorDetail(e) == <<"Erro ao processar upload: ">> \o e

\* process_upload: the checks, the ingestion of the file content d, the
\* test of chunks_created, the Document row; fail.commit: db.commit raises
process_upload(store, now, s, c, filename, d, rejected, fail) ==
    LET call == [ doc_id |-> generated_doc_id(filename, s, c, now),
                  metadata |-> <<filename>>, title |-> None, category |-> None ]
        out == process_txt_content(store, now, s, c, d, call, fail)
        result == out.res
        chunks_created == result.chunks_created
        called(x, ingest) ==
            [ op |-> "upload", sindico_id |-> s, condo_id |-> c,
              filename |-> filename, doc |-> d, now |-> now,
              rejected |-> rejected, ingest |-> ingest,
              raised |-> x.raised, status_code |-> x.status_code,
              detail |-> x.detail,
              chunks_created |-> IF x.raised THEN 0 ELSE chunks_created ]
    IN  IF rejected # "none"
        THEN [ store |-> store, res |-> called(Rejections[rejected], NoCall) ]
        ELSE IF chunks_created = 0
        THEN [ store |-> out.store,
               res |-> called(HTTPException(400, NoTextDetail), result) ]
        ELSE IF fail.commit
        THEN [ store |-> out.store,
               res |-> called(HTTPException(500,
                                  UploadErrorDetail(exception("db.commit"))),
                              result) ]
        ELSE [ store |-> out.store,
               res |-> called([ raised |-> FALSE, status_code |-> 200,
                                detail |-> None ], result) ]

\* the failures one upload of d can meet
UploadFailures(d) ==
    { [ probe |-> f.probe, embed |-> f.embed, upsert |-> f.upsert,
        commit |-> commit ] : f \in Failures(d), commit \in BOOLEAN }

\* one call of process_upload; the clock does not run backwards
UploadOp(t, filename, d, rejected, now, fail) ==
    /\ last.op = "upload" => now >= last.now
    /\ fail.embed > 0 => fail.upsert = 0
    /\ rejected # "none" =>
          fail = [ probe |-> {}, embed |-> 0, upsert |-> 0, commit |-> FALSE ]
    /\ LET out == process_upload(index, now, t[1], t[2], filename, d, rejected, fail)
       IN  /\ index' = out.store
           /\ last' = out.res

\* the tenant pair that uploads
UploadTenant == <<0, 0>>

Upload ==
    \E t \in {UploadTenant}, filename \in Filenames, d \in Docs,
       rejected \in DOMAIN Rejections, now \in 0..MaxNow :
        \E fail \in UploadFailures(d) :
            UploadOp(t, filename, d, rejected, now, fail)

NextUpload == Upload

SpecUpload == Init /\ [][NextUpload]_vars

(***************************************************************************)
(* Chat: AlexandraAI.process_message and the chain of models of            *)
(* _call_openai, one step per call of chat.completions.create.             *)
(***************************************************************************)
\* the models of _call_openai in their listed order
models ==
    << [model |-> "gpt-4-turbo-preview", max_tokens |-> 2000],
       [model |-> "gpt-4",               max_tokens |-> 1500],
       [model |-> "gpt-4o-mini",         max_tokens |-> 1500],
       [model |-> "gpt-3.5-turbo",       max_tokens |-> 1000] >>

\* _manage_history keeps the first and the last MAX_HISTORY - 1 entries
MAX_HISTORY == 20

\* the messages one AlexandraAI object is given
MaxMessages == 2

\* response.usage.total_tokens of a completion
ChatTokens == {1, 2}

manage_history(conversation_history) ==
    LET n == Len(conversation_history)
    IN  IF n > MAX_HISTORY
        THEN <<conversation_history[1]>>
                 \o SubSeq(conversation_history, n - (MAX_HISTORY - 1) + 1, n)
        ELSE conversation_history

\* _prepare_message
prepare_message(message, context) ==
    IF context # None
    THEN <<"SITUACAO APRESENTADA:", message,
           "DOCUMENTOS RELEVANTES DO CONDOMINIO:">> \o context
    ELSE <<"SITUACAO APRESENTADA:", message>>

\* response.choices[0].message.content of a completion of the model
content_of(model) == <<"message.content of", model>>

\* the state of a process_message call that has reached _call_openai;
\* i: the position in models of the next model, calls: the calls of
\* chat.completions.create made so far
Calling(message, user_id, condominium_id, include_context, history, count) ==
    [ op |-> "chat", pc |-> "calling", message |-> message,
      user_id |-> user_id, condominium_id |-> condominium_id,
      include_context |-> include_context,
      conversation_history |-> history, messages |-> count,
      i |-> 1, calls |-> <<>>, last_error |-> None,
      success |-> FALSE, answer |-> None, model |-> None, tokens |-> 0,
      error |-> None, sources |-> <<>>, saved |-> FALSE ]

\* _handle_error: the fallback answer ends with the text of the error
handle_error(st, error) ==
    [ st EXCEPT !.pc = "returned", !.success = FALSE,
                !.answer = <<"Ola! Sou a Dra. Alexandra Durval.",
                             "[Erro tecnico: ">> \o error,
                !.tokens = 0, !.error = error ]

\* a chain that goes on two models further after a failure
call_model_skipping(st, ok, tokens, save_ok) ==
    LET m == models[st.i]
        calls == Append(st.calls, [model |-> m.model, max_tokens |-> m.max_tokens,
                                   ok |-> ok])
        e == exception(m.model)
    IN  IF ok
        THEN [ st EXCEPT !.pc = "returned", !.calls = calls, !.success = TRUE,
                         !.answer = content_of(m.model), !.tokens = tokens,
                         !.model = <<m.model>>, !.saved = save_ok,
                         !.conversation_history =
                             Append(@, [role |-> "assistant",
                                        content |-> content_of(m.model)]) ]
        ELSE IF st.i + 2 > Len(models)
        THEN handle_error([ st EXCEPT !.calls = calls, !.last_error = e,
                                      !.i = Len(models) + 1 ], e)
        ELSE [ st EXCEPT !.calls = calls, !.last_error = e, !.i = @ + 2 ]

\* One turn of the loop of _call_openai, with what process_message does
\* when the call returns (_save_query, whose failure is swallowed, and the
\* assistant entry of the history) and when the last model has failed
\* (raise last_error, caught by process_message and given to _handle_error).
call_model(st, ok, tokens, save_ok) ==
    LET m == models[st.i]
        calls == Append(st.calls, [model |-> m.model, max_tokens |-> m.max_tokens,
                                   ok |-> ok])
        e == exception(m.model)
    IN  IF ok
        THEN [ st EXCEPT !.pc = "returned", !.calls = calls, !.success = TRUE,
                         !.answer = content_of(m.model), !.tokens = tokens,
                         !.model = <<m.model>>, !.saved = save_ok,
                         !.conversation_history =
                             Append(@, [role |-> "assistant",
                                        content |-> content_of(m.model)]) ]
        ELSE IF st.i = Len(models)
        THEN handle_error([ st EXCEPT !.calls = calls, !.last_error = e,
                                      !.i = @ + 1 ], e)
        ELSE [ st EXCEPT !.calls = calls, !.last_error = e, !.i = @ + 1 ]

\* the conversation_history and the number of messages of the object
history_so_far == IF last.op = "chat" THEN last.conversation_history ELSE <<>>

messages_so_far == IF last.op = "chat" THEN last.messages ELSE 0

\* process_message up to _call_openai.  With include_context and a
\* condominium_id that is neither None nor 0 it calls self.rag.query(question=..., system_prompt=...),
\* keywords RAGSystem.query does not take: the TypeError goes to
\* _handle_error before the history is touched.
ProcessMessage(message, user_id, condominium_id, include_context) ==
    /\ last.op = "chat" => last.pc = "returned"
    /\ LET st == Calling(message, user_id, condominium_id, include_context,
                         history_so_far, messages_so_far + 1)
           entry == [role |-> "user", content |-> prepare_message(message, None)]
       IN  last' = IF include_context /\ condominium_id \notin {None, <<0>>}
                   THEN handle_error(st, exception("rag.query"))
                   ELSE [ st EXCEPT !.conversation_history =
                                        manage_history(Append(@, entry)) ]
    /\ UNCHANGED index

StartChat ==
    \E t \in Tenants, known \in BOOLEAN, include_context \in BOOLEAN :
        /\ messages_so_far < MaxMessages
        /\ ProcessMessage("m", t[1], IF known THEN <<t[2]>> ELSE None,
                       include_context)

\* one call of chat.completions.create returns or raises
CallModel ==
    /\ last.op = "chat" /\ last.pc = "calling"
    /\ \E ok \in BOOLEAN, tokens \in ChatTokens, save_ok \in BOOLEAN :
          /\ ~ok => (tokens = 1 /\ save_ok)
          /\ last' = call_model(last, ok, tokens, save_ok)
    /\ UNCHANGED index

NextChat == StartChat \/ CallModel

SpecChat == Init /\ [][NextChat]_vars

(***************************************************************************)
(* A long conversation with one AlexandraAI object: every message is       *)
(* answered by the first model or by none.                                 *)
(***************************************************************************)
\* the messages of the long conversation
MaxLongMessages == 11

StartLongChat ==
    \E include_context \in BOOLEAN :
        /\ messages_so_far < MaxLongMessages
        /\ ProcessMessage("m", 1, <<1>>, include_context)

CallFirstModelOrNone ==
    /\ last.op = "chat" /\ last.pc = "calling"
    /\ \E ok \in BOOLEAN :
          /\ ok => last.i = 1
          /\ last' = call_model(last, ok, 1, TRUE)
    /\ UNCHANGED index

NextHistory == StartLongChat \/ CallFirstModelOrNone

SpecHistory == Init /\ [][NextHistory]_vars

(***************************************************************************)
(* The module-level singletons: get_or_create_rag and                      *)
(* get_or_create_langchain_rag called from several threads, one step per   *)
(* read or write of the global.  Neither function takes a lock.            *)
(***************************************************************************)
\* the threads that call the accessors, and the calls each of them makes
MaxThreads == 2

MaxCalls == 2

Threads == 1..MaxThreads

\* the two accessors, each with its own global
Accessors == {"get_or_create_rag", "get_or_create_langchain_rag"}

\* the state at import: _rag_instance = None, _langchain_instance = None
Imported ==
    [ op |-> "get_or_create",
      instance |-> [a \in Accessors |-> None],
      constructed |-> [a \in Accessors |-> 0],
      replaced |-> [a \in Accessors |-> FALSE],
      returned |-> [a \in Accessors |-> {}],
      pc |-> [t \in Threads |-> "idle"],
      accessor |-> [t \in Threads |-> "get_or_create_rag"],
      new |-> [t \in Threads |-> None],
      calls |-> [t \in Threads |-> 0] ]

globals == IF last.op = "get_or_create" THEN last ELSE Imported

\* a thread enters an accessor
CallAccessor(t, a) ==
    /\ globals.pc[t] = "idle"
    /\ globals.calls[t] < MaxCalls
    /\ last' = [ globals EXCEPT !.pc[t] = "test", !.accessor[t] = a,
                                !.calls[t] = @ + 1 ]
    /\ UNCHANGED index

\* if _instance is None:
TestNone(t) ==
    /\ globals.pc[t] = "test"
    /\ last' = [ globals EXCEPT
                   !.pc[t] = IF globals.instance[globals.accessor[t]] = None
                             THEN "construct" ELSE "return" ]
    /\ UNCHANGED index

\* RAGSystem() / IsolatedLangChainRAG(): the constructor returns a new
\* object, or raises and the call ends with the global untouched
Construct(t, raises) ==
    /\ globals.pc[t] = "construct"
    /\ LET a == globals.accessor[t]
       IN  last' = IF raises
                   THEN [ globals EXCEPT !.pc[t] = "idle" ]
                   ELSE [ globals EXCEPT
                            !.pc[t] = "assign",
                            !.constructed[a] = @ + 1,
                            !.new[t] = <<globals.constructed[a] + 1>> ]
    /\ UNCHANGED index

\* _instance = <the new object>
AssignGlobal(t) ==
    /\ globals.pc[t] = "assign"
    /\ LET a == globals.accessor[t]
       IN  last' = [ globals EXCEPT
                       !.pc[t] = "return",
                       !.instance[a] = globals.new[t],
                       !.replaced[a] = @ \/ globals.instance[a] # None,
                       !.new[t] = None ]
    /\ UNCHANGED index

\* return _instance
ReturnInstance(t) ==
    /\ globals.pc[t] = "return"
    /\ LET a == globals.accessor[t]
       IN  last' = [ globals EXCEPT
                       !.pc[t] = "idle",
                       !.returned[a] = @ \cup {globals.instance[a]} ]
    /\ UNCHANGED index

NextSingleton ==
    \E t \in Threads :
        \/ \E a \in Accessors : CallAccessor(t, a)
        \/ TestNone(t)
        \/ \E raises \in BOOLEAN : Construct(t, raises)
        \/ AssignGlobal(t)
        \/ ReturnInstance(t)

SpecSingleton == Init /\ [][NextSingleton]_vars

(***************************************************************************)
(* The query endpoints of app/main.py and the Query rows they write:       *)
(* /api/query (query_documents) and /api/v2/query (query_documents_v2),    *)
(* both over IsolatedLangChainRAG.query.                                   *)
(***************************************************************************)
\* the requests the endpoints are given
MaxRequests == 3

\* the Query table and the number of requests handled so far
rows_so_far == IF last.op = "api_query" THEN last.rows ELSE <<>>

requests_so_far == IF last.op = "api_query" THEN last.requests ELSE 0

\* what an endpoint hands back, with the Query rows it has written
Responded(endpoint, s, c, rows, result, written, status_code, answer) ==
    [ op |-> "api_query", endpoint |-> endpoint, sindico_id |-> s,
      condo_id |-> c, rows |-> rows, requests |-> requests_so_far + 1,
      result |-> result, written |-> written,
      status_code |-> status_code, answer |-> answer ]

\* Query(user_id, condominio_id, question, answer, query_type, tokens_used)
query_record(s, c, result, query_type) ==
    [ user_id |-> s, condominio_id |-> c, answer |-> result.answer,
      query_type |-> query_type, tokens_used |-> 0 ]

\* the checks both endpoints make before the pipeline is called; given: the
\* body has a question and a condominium_id; owned: the condominium is the
\* caller's
rejected_request(endpoint, s, c, rows, given, owned) ==
    IF ~given
    THEN Responded(endpoint, s, c, rows, NoCall, 0, 200,
                   <<"Por favor, forneca uma pergunta e selecione um condominio.">>)
    ELSE Responded(endpoint, s, c, rows, NoCall, 0, 403,
                   <<"Sem permissao para este condominio">>)

\* query_documents: the row is added and committed before success is read
query_documents(store, rows, s, c, given, owned, sim, raises, commit_fails) ==
    LET result == langchain_query(store, s, c, sim, raises)
        record == query_record(s, c, result, "PRIVATE_DOC")
    IN  IF ~given \/ ~owned
        THEN rejected_request("/api/query", s, c, rows, given, owned)
        ELSE IF commit_fails
        THEN Responded("/api/query", s, c, rows, result, 0, 200,
                       <<"Erro ao processar a pergunta.">>)
        ELSE IF ~result.success
        THEN Responded("/api/query", s, c, Append(rows, record), result, 1, 200,
                       <<"Recebi sua pergunta. O sistema esta processando os documentos.">>)
        ELSE Responded("/api/query", s, c, Append(rows, record), result, 1, 200,
                       result.answer)

\* query_documents_v2: the row is written under if result.get('success')
query_documents_v2(store, rows, s, c, given, owned, sim, raises, commit_fails) ==
    LET result == langchain_query(store, s, c, sim, raises)
        record == query_record(s, c, result, "LANGCHAIN_ISOLATED")
    IN  IF ~given \/ ~owned
        THEN rejected_request("/api/v2/query", s, c, rows, given, owned)
        ELSE IF result.success /\ commit_fails
        THEN Responded("/api/v2/query", s, c, rows, result, 0, 200,
                       <<"Erro ao processar pergunta">>)
        ELSE IF result.success
        THEN Responded("/api/v2/query", s, c, Append(rows, record), result, 1,
                       200, result.answer)
        ELSE Responded("/api/v2/query", s, c, rows, result, 0, 200, result.answer)

\* the inputs of one request
RequestInputs ==
    [ given : BOOLEAN, owned : BOOLEAN, raises : BOOLEAN, commit_fails : BOOLEAN ]

\* a request whose checks fail meets no backend
met(in) ==
    /\ (~in.given \/ ~in.owned) => (~in.raises /\ ~in.commit_fails)
    /\ ~in.given => in.owned

ApiQuery ==
    \E t \in Tenants, in \in RequestInputs :
        /\ met(in)
        /\ requests_so_far < MaxRequests
        /\ last' = query_documents(index, rows_so_far, t[1], t[2], in.given,
                                   in.owned, <<30, 30>>, in.raises, in.commit_fails)
        /\ UNCHANGED index

ApiQueryV2 ==
    \E t \in Tenants, in \in RequestInputs :
        /\ met(in)
        /\ requests_so_far < MaxRequests
        /\ last' = query_documents_v2(index, rows_so_far, t[1], t[2], in.given,
                                      in.owned, <<30, 30>>, in.raises, in.commit_fails)
        /\ UNCHANGED index

NextAudit == ApiQuery \/ ApiQueryV2

SpecAudit == Init /\ [][NextAudit]_vars

(***************************************************************************)
(* The namespace of a tenant pair as the string the f-string renders.      *)
(***************************************************************************)
\* the largest sindico_id and condo_id a namespace is rendered for
MaxId == 11

Ids == 0..MaxId

\* a rendering that puts nothing between the two ids
namespace_name_unseparated(sindico_id, condo_id) ==
    "user_" \o ToString(sindico_id) \o ToString(condo_id)

\* f"user_{sindico_id}_cond_{condo_id}": the string whose parts are the
\* tokens of namespace_for
namespace_name(sindico_id, condo_id) ==
    "user_" \o ToString(sindico_id) \o "_cond_" \o ToString(condo_id)

\* one call of RAGSystem.namespace_for
NamespaceFor ==
    \E s \in Ids, c \in Ids :
        /\ last' = [ op |-> "namespace_for", sindico_id |-> s, condo_id |-> c,
                     namespace |-> namespace_name(s, c) ]
        /\ UNCHANGED index

NextNamespace == NamespaceFor

SpecNamespace == Init /\ [][NextNamespace]_vars

(***************************************************************************)
(* The chunkers as functions of the characters of the text.                *)
(* _create_chunks, the sliding-window split, runs one turn of its while    *)
(* loop per step.                                                          *)
(***************************************************************************)
\* the longest text split, in characters, and the largest chunk_size
MaxLen == 5

MaxChunkSize == 3

\* a letter and a blank
Chars == {"a", " "}

Texts == UNION { [1..n -> Chars] : n \in 0..MaxLen }

\* str.strip()
RECURSIVE lstrip(_)
lstrip(t) == IF t # <<>> /\ Head(t) = " " THEN lstrip(Tail(t)) ELSE t

RECURSIVE rstrip(_)
rstrip(t) ==
    IF t # <<>> /\ t[Len(t)] = " " THEN rstrip(SubSeq(t, 1, Len(t) - 1)) ELSE t

strip(t) == rstrip(lstrip(t))

\* text[start:end] with 0 <= start <= end
slice(text, start, end) ==
    SubSeq(text, start + 1, IF end < Len(text) THEN end ELSE Len(text))

\* a window that moves on by one character
next_start_by_one(start, end, overlap, n) == IF end < n THEN start + 1 ELSE end

\* start = end - overlap if end < len(text) else end
next_start(start, end, overlap, n) == IF end < n THEN end - overlap ELSE end

\* the state of a call of _create_chunks when it enters its loop
CreateChunksCalled(text, chunk_size, overlap) ==
    [ op |-> "create_chunks", pc |-> "while", text |-> text,
      chunk_size |-> chunk_size, overlap |-> overlap,
      start |-> 0, chunks |-> <<>>, iterations |-> 0 ]

\* one test of the while condition and, when it holds, one turn of the body
while_turn(st) ==
    LET end == st.start + st.chunk_size
        chunk == strip(slice(st.text, st.start, end))
    IN  IF st.start < Len(st.text)
        THEN [ st EXCEPT
                 !.chunks = IF chunk # <<>> THEN Append(@, chunk) ELSE @,
                 !.start = next_start(st.start, end, st.overlap, Len(st.text)),
                 !.iterations = @ + 1 ]
        ELSE [ st EXCEPT !.pc = "returned" ]

\* a call of _create_chunks is in its loop
InLoop == last.op = "create_chunks" /\ last.pc = "while"

\* _create_chunks is called with chunk_size > overlap >= 0.  A chunker reads
\* nothing but its arguments: its call is the first one of a behaviour.
CreateChunks ==
    /\ last = NoCall
    /\ \E text \in Texts, chunk_size \in 1..MaxChunkSize :
          \E overlap \in 0..(chunk_size - 1) :
              last' = CreateChunksCalled(text, chunk_size, overlap)
    /\ UNCHANGED index

WhileTurn ==
    /\ InLoop
    /\ last' = while_turn(last)
    /\ UNCHANGED index

NextChunks == CreateChunks \/ WhileTurn

\* the loop is sequential code: a call that can take a turn takes it
SpecChunks == Init /\ [][NextChunks]_vars /\ WF_vars(WhileTurn)

(***************************************************************************)
(* _create_chunks_tokenless, the split by words of the title mode.         *)
(***************************************************************************)
\* the first word of a text that starts with a letter
RECURSIVE first_word(_)
first_word(t) ==
    IF t = <<>> \/ Head(t) = " " THEN <<>> ELSE <<Head(t)>> \o first_word(Tail(t))

\* text.split(): the runs of letters between blanks
RECURSIVE split(_)
split(t) ==
    IF t = <<>> THEN <<>>
    ELSE IF Head(t) = " " THEN split(Tail(t))
    ELSE LET w == first_word(t)
         IN  <<w>> \o split(SubSeq(t, Len(w) + 1, Len(t)))

\* " ".join(words)
RECURSIVE join(_)
join(words) ==
    IF words = <<>> THEN <<>>
    ELSE IF Len(words) = 1 THEN words[1]
    ELSE words[1] \o <<" ">> \o join(Tail(words))

\* the for loop of _create_chunks_tokenless and the lines after it
RECURSIVE for_words(_, _, _, _)
for_words(words, chunks, current, chunk_size) ==
    IF words = <<>>
    THEN IF current # <<>> THEN Append(chunks, join(current)) ELSE chunks
    ELSE LET appended == Append(current, Head(words))
         IN  IF Len(join(appended)) > chunk_size
             THEN for_words(Tail(words), Append(chunks, join(current)),
                            <<Head(words)>>, chunk_size)
             ELSE for_words(Tail(words), chunks, appended, chunk_size)

create_chunks_tokenless(text, chunk_size) ==
    IF text = <<>> THEN <<>> ELSE for_words(split(text), <<>>, <<>>, chunk_size)

\* one call of _create_chunks_tokenless
CreateChunksTokenless ==
    /\ last = NoCall
    /\ \E text \in Texts, chunk_size \in 1..MaxChunkSize :
          last' = [ op |-> "create_chunks_tokenless", pc |-> "returned",
                    text |-> text, chunk_size |-> chunk_size,
                    chunks |-> create_chunks_tokenless(text, chunk_size) ]
    /\ UNCHANGED index

(***************************************************************************)
(* _create_structured_chunks.  A legal text is a sequence of items: the    *)
(* markers the article pattern matches, bodies of text, blanks and         *)
(* paragraph breaks, each with its length in characters.                   *)
(***************************************************************************)
\* the longest legal text split, in items
MaxItems == 5

\* the sizes _create_structured_chunks works with
section_ceiling == 1500

min_paragraph == 50

structured_chunk_size == 1000

structured_overlap == 150

Item(kind, num, len) == [kind |-> kind, num |-> num, len |-> len]

\* "Art. 1", "Art. 2", "Art. 3"; a marker of another kind ("§ 1", also
\* standing for CAPITULO and SECAO); a body under min_paragraph characters
\* and one of section_ceiling characters; " " and "\n\n"
Items ==
    { Item("Art", n, 6) : n \in 1..3 }
        \cup { Item("paragraph sign", 1, 3), Item("body", 0, 40),
               Item("body", 0, section_ceiling), Item("blank", 0, 1),
               Item("break", 0, 2) }

LegalTexts == UNION { [1..n -> Items] : n \in 0..MaxItems }

\* doc_type in ["convencao", "regimento", "estatuto"], and the other types
LegalTypes == {"convencao", "regimento", "estatuto"}

DocTypes == LegalTypes \cup {"ata", "general"}

\* the article pattern matches at the item
is_marker(item) == item.kind \in {"Art", "paragraph sign"}

is_space(item) == item.kind \in {"blank", "break"}

\* len() of a text of items
RECURSIVE length(_)
length(t) == IF t = <<>> THEN 0 ELSE Head(t).len + length(Tail(t))

\* str.strip() of a text of items
RECURSIVE lstrip_items(_)
lstrip_items(t) ==
    IF t # <<>> /\ is_space(Head(t)) THEN lstrip_items(Tail(t)) ELSE t

RECURSIVE rstrip_items(_)
rstrip_items(t) ==
    IF t # <<>> /\ is_space(t[Len(t)])
    THEN rstrip_items(SubSeq(t, 1, Len(t) - 1)) ELSE t

strip_items(t) == rstrip_items(lstrip_items(t))

\* re.split(article_pattern, text): a piece ends before every marker, the
\* first piece is what stands before the first marker (empty when the text
\* starts with one)
RECURSIVE split_before_markers(_, _)
split_before_markers(t, piece) ==
    IF t = <<>> THEN <<piece>>
    ELSE IF is_marker(Head(t))
    THEN <<piece>> \o split_before_markers(Tail(t), <<Head(t)>>)
    ELSE split_before_markers(Tail(t), Append(piece, Head(t)))

\* a split whose pieces end after the markers
RECURSIVE split_after_markers(_, _)
split_after_markers(t, piece) ==
    IF t = <<>> THEN <<piece>>
    ELSE IF is_marker(Head(t))
    THEN <<Append(piece, Head(t))>> \o split_after_markers(Tail(t), <<>>)
    ELSE split_after_markers(Tail(t), Append(piece, Head(t)))

re_split_after_markers(text) == split_after_markers(text, <<>>)

re_split(text) == split_before_markers(text, <<>>)

\* section.split('\n\n')
RECURSIVE split_paragraphs(_, _)
split_paragraphs(t, piece) ==
    IF t = <<>> THEN <<piece>>
    ELSE IF Head(t).kind = "break"
    THEN <<piece>> \o split_paragraphs(Tail(t), <<>>)
    ELSE split_paragraphs(Tail(t), Append(piece, Head(t)))

\* re.match(r'Art(?:igo)?\.?\s*(\d+)', section): group(1) or None
article_num(section) ==
    IF section # <<>> /\ Head(section).kind = "Art"
    THEN <<Head(section).num>> ELSE None

\* the chunks of one section: the section itself, or its paragraphs of
\* more than min_paragraph characters when it is over the ceiling
section_chunks(section, doc_type) ==
    LET paragraphs == split_paragraphs(section, <<>>)
        long_paragraphs == SelectSeq([ j \in 1..Len(paragraphs) |->
                              [ text |-> strip_items(paragraphs[j]),
                                chunk_type |-> "paragraph",
                                article_num |-> article_num(section),
                                paragraph_num |-> j - 1,
                                doc_type |-> doc_type ] ],
                          LAMBDA ch : length(ch.text) > min_paragraph)
    IN  IF strip_items(section) = <<>> THEN <<>>
        ELSE IF length(section) > section_ceiling THEN long_paragraphs
        ELSE << [ text |-> strip_items(section), chunk_type |-> "article",
                  article_num |-> article_num(section), paragraph_num |-> 0,
                  doc_type |-> doc_type ] >>

RECURSIVE sections_chunks(_, _)
sections_chunks(sections, doc_type) ==
    IF sections = <<>> THEN <<>>
    ELSE section_chunks(Head(sections), doc_type)
             \o sections_chunks(Tail(sections), doc_type)

\* _create_chunks run to its return
RECURSIVE while_loop(_)
while_loop(st) == IF st.pc = "returned" THEN st.chunks ELSE while_loop(while_turn(st))

create_chunks(text, chunk_size, overlap) ==
    while_loop(CreateChunksCalled(text, chunk_size, overlap))

\* _create_structured_chunks
create_structured_chunks(text, doc_type) ==
    IF doc_type \in LegalTypes
    THEN sections_chunks(re_split(text), doc_type)
    ELSE LET simple_chunks == create_chunks(text, structured_chunk_size,
                                            structured_overlap)
         IN  [ i \in 1..Len(simple_chunks) |->
                 [ text |-> simple_chunks[i], chunk_type |-> "mixed",
                   article_num |-> None, paragraph_num |-> 0,
                   doc_type |-> doc_type ] ]

\* one call of _create_structured_chunks: a legal text with a legal type, a
\* text of letters and blanks with another type
CreateStructuredChunks ==
    /\ last = NoCall
    /\ \E doc_type \in DocTypes :
          \E text \in IF doc_type \in LegalTypes THEN LegalTexts ELSE Texts :
              /\ (doc_type \in LegalTypes /\ Len(text) > 3) => doc_type = "regimento"
              /\ last' = [ op |-> "create_structured_chunks", pc |-> "returned",
                           text |-> text, doc_type |-> doc_type,
                           chunks |-> create_structured_chunks(text, doc_type) ]
    /\ UNCHANGED index

NextChunkers ==
    CreateChunks \/ WhileTurn \/ CreateChunksTokenless \/ CreateStructuredChunks

SpecChunkers == Init /\ [][NextChunkers]_vars

(***************************************************************************)
(* _classify_query and _expand_query.  A question is a sequence of words;  *)
(* a word of a rule or a term of the synonyms occurs in it as a whole      *)
(* word.                                                                   *)
(***************************************************************************)
\* the longest question, in words
MaxWords == 3

\* the cap of _expand_query
max_queries == 5

\* Words that match a rule of _classify_query, terms of the synonyms, two
\* words with capitals, and a word that matches nothing.
Words ==
    { "Art. 5", "lei", "pode", "melhor", "como", "2020",
      "animal", "barulho", "festa", "Multa", "artigo", "x" }

Questions == UNION { [1..n -> Words] : n \in 1..MaxWords }

\* str.lower() of a word and of a question
lower_word(w) ==
    CASE w = "Art. 5" -> "art. 5"
      [] w = "Multa" -> "multa"
      [] OTHER -> w

lower(q) == [ i \in 1..Len(q) |-> lower_word(q[i]) ]

\* the rules of _classify_query in the order of its if/elif chain, each with
\* the lower-case words of Words its pattern finds
rules ==
    << [type |-> "lookup",         finds |-> {"art. 5", "lei"}],
       [type |-> "interpretative", finds |-> {"pode"}],
       [type |-> "comparative",    finds |-> {"melhor"}],
       [type |-> "procedural",     finds |-> {"como"}],
       [type |-> "temporal",       finds |-> {"2020"}] >>

\* re.search(pattern of the rule, query_lower)
re_search(rule, query_lower) == Range(query_lower) \cap rule.finds # {}

\* a chain that tests the interpretative rule before the lookup rule
classify_query_swapped(question) ==
    LET query_lower == lower(question)
    IN  IF re_search(rules[2], query_lower) THEN rules[2].type
        ELSE IF re_search(rules[1], query_lower) THEN rules[1].type
        ELSE IF re_search(rules[3], query_lower) THEN rules[3].type
        ELSE IF re_search(rules[4], query_lower) THEN rules[4].type
        ELSE IF re_search(rules[5], query_lower) THEN rules[5].type
        ELSE "general"

\* _classify_query: the 'type' of the dict it returns
classify_query(question) ==
    LET query_lower == lower(question)
    IN  IF re_search(rules[1], query_lower) THEN rules[1].type
        ELSE IF re_search(rules[2], query_lower) THEN rules[2].type
        ELSE IF re_search(rules[3], query_lower) THEN rules[3].type
        ELSE IF re_search(rules[4], query_lower) THEN rules[4].type
        ELSE IF re_search(rules[5], query_lower) THEN rules[5].type
        ELSE "general"

QueryTypes == { rules[k].type : k \in 1..Len(rules) } \cup {"general"}

\* the synonyms in the order of the dict, each with syns[:2]
synonyms ==
    << [term |-> "animal",  syns |-> <<"pet", "bicho">>],
       [term |-> "barulho", syns |-> <<"ruido", "som">>],
       [term |-> "festa",   syns |-> <<"evento", "comemoracao">>],
       [term |-> "multa",   syns |-> <<"penalidade", "sancao">>] >>

\* query.lower().replace(term, syn)
replace(query_lower, term, syn) ==
    [ i \in 1..Len(query_lower) |->
        IF query_lower[i] = term THEN syn ELSE query_lower[i] ]

\* the variations of the type of the question
type_variations(question, type) ==
    IF type = "lookup"
    THEN (IF "artigo" \notin Range(lower(question))
          THEN << <<"artigo", "sobre">> \o question >> ELSE <<>>)
             \o << <<"regulamento">> \o question >>
    ELSE IF type = "interpretative"
    THEN << <<"regras", "sobre">> \o question, <<"normas", "de">> \o question >>
    ELSE <<>>

\* the variations of the synonyms from the k-th term on
RECURSIVE synonym_variations(_, _)
synonym_variations(question, k) ==
    IF k > Len(synonyms) THEN <<>>
    ELSE (IF synonyms[k].term \in Range(lower(question))
          THEN [ j \in 1..2 |->
                   replace(lower(question), synonyms[k].term, synonyms[k].syns[j]) ]
          ELSE <<>>)
             \o synonym_variations(question, k + 1)

\* list(dict.fromkeys(queries)): the first occurrence of each is kept
RECURSIVE fromkeys(_, _)
fromkeys(queries, seen) ==
    IF queries = <<>> THEN <<>>
    ELSE IF Head(queries) \in seen THEN fromkeys(Tail(queries), seen)
    ELSE <<Head(queries)>> \o fromkeys(Tail(queries), seen \cup {Head(queries)})

\* a list that is not cut
uncut(queries) == queries

\* [:5]
first_queries(queries) ==
    SubSeq(queries, 1, IF Len(queries) < max_queries THEN Len(queries)
                                                     ELSE max_queries)

\* _expand_query
expand_query(question, type) ==
    first_queries(fromkeys(<<question>> \o type_variations(question, type)
                                     \o synonym_variations(question, 1), {}))

\* one call of _classify_query
ClassifyQuery ==
    /\ last = NoCall
    /\ \E question \in Questions :
          last' = [ op |-> "classify_query", query |-> question,
                    type |-> classify_query(question) ]
    /\ UNCHANGED index

\* one call of _expand_query, with any classification
ExpandQuery ==
    /\ last = NoCall
    /\ \E question \in Questions, type \in QueryTypes :
          last' = [ op |-> "expand_query", query |-> question, type |-> type,
                    queries |-> expand_query(question, type) ]
    /\ UNCHANGED index

NextQuestions == ClassifyQuery \/ ExpandQuery

SpecQuestions == Init /\ [][NextQuestions]_vars

(***************************************************************************)
(* Two concurrent ingestions of one document in the original mode, one     *)
(* step per backend call: a probe (index.fetch) of a chunk, the embedding  *)
(* of the unique chunks, the upsert of their vectors.  The embedding and   *)
(* the upsert calls return; a probe returns or raises.                     *)
(***************************************************************************)
Ingestions == {1, 2}

\* the document both ingest, and the arguments both are called with
ConcurrentDoc == Doc(MaxChunks)

ConcurrentCall ==
    [doc_id |-> <<"d1">>, metadata |-> <<"f1">>, title |-> None, category |-> None]

\* an id made with the position among the unique chunks
stored_position_among_unique(orig_idx, idx) == idx

\* the position a vector id carries: orig_idx, the position in the document
stored_position(orig_idx, idx) == orig_idx

\* both ingestions are called, for the tenant pair t
Ingesting(t) ==
    [ op |-> "concurrent_ingest", sindico_id |-> t[1], condo_id |-> t[2],
      doc |-> ConcurrentDoc, call |-> ConcurrentCall,
      pc |-> [p \in Ingestions |-> "probe"],
      i |-> [p \in Ingestions |-> 1],
      unique_indices |-> [p \in Ingestions |-> <<>>],
      probe_failed |-> [p \in Ingestions |-> {}],
      chunks_created |-> [p \in Ingestions |-> 0] ]

StartIngestions ==
    /\ last = NoCall
    /\ \E t \in Tenants : last' = Ingesting(t)
    /\ UNCHANGED index

\* the dedup loop probes the next chunk: existing.vectors is empty, or not,
\* or index.fetch raises and the chunk is taken as unique.  After the last
\* chunk the ingestion returns "Documento ja existe" when nothing is unique.
Probe(p, raises) ==
    /\ last.op = "concurrent_ingest" /\ last.pc[p] = "probe"
    /\ LET namespace == namespace_for(last.sindico_id, last.condo_id)
           chunks == last.doc.chunks
           i == last.i[p]
           check_id == vector_id(last.call.doc_id, chunks[i], i - 1)
           unique == raises \/ fetch(index, namespace, check_id) = {}
           unique_indices == IF unique THEN Append(last.unique_indices[p], i)
                                       ELSE last.unique_indices[p]
       IN  last' = [ last EXCEPT
                       !.unique_indices[p] = unique_indices,
                       !.probe_failed[p] = IF raises THEN @ \cup {i} ELSE @,
                       !.i[p] = i + 1,
                       !.pc[p] = IF i < Len(chunks) THEN "probe"
                                 ELSE IF unique_indices = <<>> THEN "done"
                                 ELSE "embed" ]
    /\ UNCHANGED index

\* self._embed(unique_chunks)
EmbedUnique(p) ==
    /\ last.op = "concurrent_ingest" /\ last.pc[p] = "embed"
    /\ last' = [ last EXCEPT !.pc[p] = "upsert" ]
    /\ UNCHANGED index

\* the vectors of the unique chunks are built and upserted (one batch: the
\* document has fewer than batch_size chunks); the ingestion returns
UpsertUnique(p) ==
    /\ last.op = "concurrent_ingest" /\ last.pc[p] = "upsert"
    /\ LET namespace == namespace_for(last.sindico_id, last.condo_id)
           chunks == last.doc.chunks
           unique_indices == last.unique_indices[p]
           vectors ==
               { [ id |-> vector_id(last.call.doc_id, chunks[unique_indices[k]],
                                    stored_position(unique_indices[k] - 1, k - 1)),
                   text |-> chunks[unique_indices[k]],
                   filename |-> last.call.metadata, title |-> None,
                   sindico_id |-> last.sindico_id, condo_id |-> last.condo_id,
                   doc_id |-> last.call.doc_id ] : k \in 1..Len(unique_indices) }
       IN  /\ Len(unique_indices) <= batch_size
           /\ index' = upsert(index, namespace, vectors)
           /\ last' = [ last EXCEPT !.pc[p] = "done",
                                    !.chunks_created[p] = Len(unique_indices) ]

NextConcurrent ==
    \/ StartIngestions
    \/ \E p \in Ingestions :
          \/ \E raises \in BOOLEAN : Probe(p, raises)
          \/ EmbedUnique(p)
          \/ UpsertUnique(p)

SpecConcurrent == Init /\ [][NextConcurrent]_vars

(***************************************************************************)
(* Concurrent uploads for one condominium and its Document rows: one step  *)
(* for the count of the rows, one for the awaited file.read(), one for the *)
(* ingestion with the insert of the row.                                   *)
(***************************************************************************)
\* the limit of documents of a condominium
doc_limit == 20

\* no upload has been called: the condominium has no Document row
NoUploads ==
    [ op |-> "uploads", documents |-> 0,
      pc |-> [t \in Threads |-> "idle"],
      doc_count |-> [t \in Threads |-> 0] ]

uploads == IF last.op = "uploads" THEN last ELSE NoUploads

\* doc_count = db.query(Document).filter(condo_id, processed == True).count()
\* and the test of the limit, which ends the call with HTTPException(400)
CountDocuments(t) ==
    /\ uploads.pc[t] = "idle"
    /\ last' = [ uploads EXCEPT
                   !.doc_count[t] = uploads.documents,
                   !.pc[t] = IF uploads.documents >= doc_limit THEN "idle"
                                                              ELSE "read" ]
    /\ UNCHANGED index

\* file_content = await file.read(): other uploads run meanwhile; the size
\* test or the Condominio lookup may end the call
ReadFile(t, passes) ==
    /\ uploads.pc[t] = "read"
    /\ last' = [ uploads EXCEPT !.pc[t] = IF passes THEN "insert" ELSE "idle" ]
    /\ UNCHANGED index

\* the ingestion, then db.add(Document(processed=True)) and db.commit();
\* stored: the ingestion created chunks
InsertDocument(t, stored) ==
    /\ uploads.pc[t] = "insert"
    /\ last' = [ uploads EXCEPT
                   !.pc[t] = "idle",
                   !.documents = IF stored THEN @ + 1 ELSE @ ]
    /\ UNCHANGED index

NextLimit ==
    \E t \in Threads :
        \/ CountDocuments(t)
        \/ \E passes \in BOOLEAN : ReadFile(t, passes)
        \/ \E stored \in BOOLEAN : InsertDocument(t, stored)

SpecLimit == Init /\ [][NextLimit]_vars

(***************************************************************************)
(* Properties of Spec.                                                     *)
(***************************************************************************)
IsQuery == last.op \in {"query", "langchain_query"}

\* the matches a query result carries: merged, ranked and used for context
Retrieved ==
    Range(last.all_matches) \cup Range(last.context)
        \cup (IF last.op = "query" THEN Range(last.top_matches) ELSE {})

\* the namespace a record was ingested under
ingested_under(rec) == namespace_for(rec.sindico_id, rec.condo_id)

\* C1, as stated: a query issued for the tenant pair (s, c) retrieves only
\* records that were ingested under the namespace of (s, c).
C1_OwnNamespaceOnly ==
    IsQuery =>
        \A m \in Retrieved :
            ingested_under(m.rec) = namespace_for(last.sindico_id, last.condo_id)

\* C1, amended: a query retrieves only records of the one namespace it
\* searches, which is the namespace argument when RAGSystem.query is given
\* one and the namespace of (s, c) otherwise; its matches, context and
\* sources come from records ingested under that namespace and held there.
C1_SearchedNamespaceOnly ==
    IsQuery =>
        /\ last.namespace =
              IF last.op = "query" /\ last.namespace_arg # None
              THEN last.namespace_arg
              ELSE namespace_for(last.sindico_id, last.condo_id)
        /\ \A m \in Retrieved :
              /\ m.rec \in index[last.namespace]
              /\ ingested_under(m.rec) = last.namespace
        /\ last.op = "query" =>
              Range(last.sources) \subseteq
                  { source_name(m.rec) : m \in Range(last.context) }

\* a query answered from its tenant's records while another tenant's
\* namespace holds records too
C1_Witness ==
    /\ last.op = "query" /\ last.success /\ last.namespace_arg = None
    /\ last.context # <<>>
    /\ \E ns \in Namespaces : ns # last.namespace /\ index[ns] # {}

\* C2, as stated: when an ingestion follows a successful ingestion of the
\* same document with the same arguments into the same namespace and all its
\* probes answer, it reports chunks_created = 0 and writes no vector.
C2_SecondIngestionWritesNothing ==
    (last.op = "ingest" /\ last.follows = "success" /\ last.probe_failed = {})
        => (last.chunks_created = 0 /\ last.written = {})

\* C3, as stated: no two records of a namespace hold the same chunk text.
C3_NoTextStoredTwice ==
    \A ns \in Namespaces :
        \A r1 \in index[ns], r2 \in index[ns] :
            content_hash(r1.text) = content_hash(r2.text) => r1 = r2

\* C4, as stated: after delete_document returns success, the namespace holds
\* no record stored for that document identifier.
C4_DeletedDocumentIsGone ==
    (last.op = "delete" /\ last.success) =>
        \A r \in index[namespace_for(last.sindico_id, last.condo_id)] :
            r.doc_id # last.doc_id

\* the positions of the document of the latest ingestion
Chunks == 1..Len(last.doc.chunks)

\* C5: a chunk whose probe raised is not skipped; only an embedding or
\* upsert failure fails the ingestion; the chunks after it are still probed;
\* when the ingestion succeeds the chunk was embedded and sent in an upsert
\* and the store holds a record of its text written by this call.
C5_ProbesFailOpen ==
    (last.op = "ingest" /\ last.probe_failed # {}) =>
        /\ last.probe_failed \cap last.skipped = {}
        /\ last.success \/ last.error \in {"embed", "upsert"}
        /\ last.success =>
              /\ last.probe_failed \subseteq last.embed_calls
              /\ last.probe_failed \subseteq last.sent
              /\ last.embed_calls \cup last.skipped = Chunks
              /\ \A i \in last.probe_failed :
                    \E r \in index[namespace_for(last.sindico_id, last.condo_id)] :
                        /\ r.text = last.doc.chunks[i]
                        /\ r.id \in last.written

\* a successful ingestion in which a probe raised and another chunk was
\* found stored
C5_Witness ==
    /\ last.op = "ingest" /\ last.success
    /\ last.probe_failed # {} /\ last.skipped # {}
    /\ last.probe_failed \subseteq last.sent

\* C6, as stated: a chunk whose probe found a record is neither embedded nor
\* sent in an upsert, and embeddings_created is the number of chunks whose
\* probe found nothing or raised.
C6_SkippedAndCounted ==
    last.op = "ingest" =>
        /\ last.skipped \cap last.embed_calls = {}
        /\ last.skipped \cap last.sent = {}
        /\ last.embeddings_created = Cardinality(Chunks \ last.skipped)

\* C6, amended: a chunk whose probe found a record is neither embedded nor
\* sent in an upsert; an ingestion that succeeds embeds and sends exactly the
\* other chunks and reports their number as embeddings_created, and an
\* ingestion that fails reports embeddings_created = 0.
C6_SkippedAndCountedOnSuccess ==
    last.op = "ingest" =>
        /\ last.skipped \cap last.embed_calls = {}
        /\ last.skipped \cap last.sent = {}
        /\ last.success =>
              /\ last.embed_calls = Chunks \ last.skipped
              /\ last.sent = Chunks \ last.skipped
              /\ last.embeddings_created = Cardinality(Chunks \ last.skipped)
        /\ ~last.success => last.embeddings_created = 0

\* a successful ingestion that skipped one chunk and embedded another
C6_Witness ==
    /\ last.op = "ingest" /\ last.success
    /\ last.skipped # {} /\ last.embeddings_created > 0

\* C7: when an embedding call fails, no later chunk is embedded, no upsert
\* is issued, nothing is written, and the ingestion returns success = false
\* with chunks_created = 0 and embeddings_created = 0.
C7_EmbeddingFailsFast ==
    (last.op = "ingest" /\ last.embed_failed_at # 0) =>
        /\ \A i \in last.embed_calls : i <= last.embed_failed_at
        /\ last.upsert_calls = 0 /\ last.sent = {} /\ last.written = {}
        /\ ~last.success
        /\ last.chunks_created = 0 /\ last.embeddings_created = 0

\* an embedding failure with a chunk still to embed after it
C7_Witness ==
    /\ last.op = "ingest" /\ last.embed_failed_at # 0
    /\ \E i \in Chunks \ last.skipped : i > last.embed_failed_at

stored_ids(store, namespace) == { r.id : r \in store[namespace] }

\* the id under which original_mode stores the i-th chunk of the latest
\* ingestion's document
chunk_id(res, i) == vector_id(res.call.doc_id, res.doc.chunks[i], i - 1)

\* the step is an original-mode ingestion whose upsert failed after at least
\* one batch was stored
PartialWrite ==
    /\ last'.op = "ingest" /\ last'.mode = "original"
    /\ last'.error = "upsert" /\ last'.upsert_calls > 1

\* the step is an ingestion that repeats, with every probe answered, the
\* ingestion before it, which was a partial write
Retry ==
    /\ last.op = "ingest" /\ last.mode = "original"
    /\ last.error = "upsert" /\ last.written # {}
    /\ last'.op = "ingest" /\ last'.follows = "partial"
    /\ last'.probe_failed = {}

\* C8: in original mode, when an upsert fails after earlier batches were
\* stored, the vectors of those batches are in the store afterwards and no
\* record was removed; a retry of the same document with the same doc_id
\* skips exactly the chunks the store holds, among them all those of the
\* earlier batches (and no other when the failed call found the store without
\* the document), sends the others, and when it succeeds stores exactly the
\* others and every chunk of the document is in the store under one id.
C8_PartialWritesKeptRetryConverges ==
    [][ LET ns == namespace_for(last'.sindico_id, last'.condo_id)
            n == Len(last'.doc.chunks)
            held == { i \in 1..n : chunk_id(last', i) \in stored_ids(index, ns) }
        IN  /\ PartialWrite =>
                /\ Cardinality(last'.written) = (last'.upsert_calls - 1) * batch_size
                /\ last'.written \subseteq stored_ids(index', ns)
                /\ index[ns] \subseteq index'[ns]
                /\ ~last'.success
            /\ Retry =>
                /\ last.written \subseteq stored_ids(index, ns)
                /\ last'.skipped = held
                /\ { i \in 1..n : chunk_id(last', i) \in last.written }
                      \subseteq last'.skipped
                /\ (last.skipped = {} /\ last.probe_failed = {}) =>
                      last'.skipped =
                          { i \in 1..n : chunk_id(last', i) \in last.written }
                /\ last'.embed_calls \cap held = {}
                /\ last'.sent \cap held = {}
                /\ last'.success =>
                      /\ last'.sent = (1..n) \ held
                      /\ last'.written =
                            { chunk_id(last', i) : i \in (1..n) \ held }
                      /\ \A i \in 1..n :
                            { r.id : r \in { x \in index'[ns] :
                                  /\ x.doc_id = last'.call.doc_id
                                  /\ x.text = last'.doc.chunks[i] } }
                               = { chunk_id(last', i) }
      ]_vars

\* a retry that succeeded after a partial write, having skipped the stored
\* chunks and written the others
C8_Witness ==
    /\ last.op = "ingest" /\ last.follows = "partial" /\ last.success
    /\ last.probe_failed = {}
    /\ last.skipped # {} /\ last.written # {}

(***************************************************************************)
(* Properties of SpecRetrieve.                                             *)
(***************************************************************************)
\* the scores of a sequence of matches
scores_of(matches) == [ i \in 1..Len(matches) |-> matches[i].score ]

\* C10: the matches used for the context of a query are the merged
\* candidates with a score strictly above the threshold of the searched
\* namespace (35 for user_0_cond_0, 50 for any other), each once, in
\* non-increasing score order, cut to the first 12: a candidate above the
\* threshold that is left out scores no more than any that is used.  For
\* candidates scoring 90, 60, 30 and the threshold 50 they are the first two.
C10_ContextIsRankedTopAboveThreshold ==
    last.op = "query" =>
        LET t == IF last.namespace = <<"user", "0", "cond", "0">> THEN 35 ELSE 50
            cand == last.all_matches
            used == last.context
            above == { i \in 1..Len(cand) : cand[i].score > t }
        IN  /\ Len(used) = IF Cardinality(above) < 12 THEN Cardinality(above) ELSE 12
            /\ \A i \in 1..Len(used) :
                  /\ \E j \in above : cand[j] = used[i]
                  /\ \A j \in 1..Len(used) : i < j => used[i].score >= used[j].score
                  /\ \A j \in 1..Len(used) : i # j => used[i].rec.id # used[j].rec.id
            /\ \A j \in above :
                  (\A i \in 1..Len(used) : used[i] # cand[j]) =>
                      \A i \in 1..Len(used) : cand[j].score <= used[i].score
            /\ (scores_of(cand) = <<90, 60, 30>> /\ t = 50) =>
                  used = SubSeq(cand, 1, 2)

\* a query whose candidates above the threshold outnumber the cut, with
\* other candidates at the threshold or below
C10_Witness ==
    /\ last.op = "query" /\ last.success
    /\ Len(last.context) = 12
    /\ Cardinality({ i \in 1..Len(last.all_matches) :
                       last.all_matches[i].score > threshold(last.namespace) }) > 12
    /\ \E i \in 1..Len(last.all_matches) :
          last.all_matches[i].score = threshold(last.namespace)

\* the expanded queries, in expansion order, whose search returned the id
returned_by(id) ==
    { e \in 1..Len(last.results) :
        \E i \in 1..Len(last.results[e]) : last.results[e][i].rec.id = id }

\* the match the e-th expanded query returned for the id
match_of(e, id) ==
    CHOOSE m \in Range(last.results[e]) : m.rec.id = id

\* the earliest expanded query that returned the id
earliest(id) ==
    CHOOSE e \in returned_by(id) : \A f \in returned_by(id) : e <= f

\* the ids any expanded query returned
returned_ids ==
    UNION { { m.rec.id : m \in Range(last.results[e]) } :
              e \in 1..Len(last.results) }

\* C11: every id an expanded query returned appears exactly once among the
\* merged candidates and no other id does; the match kept for an id is the
\* one returned by the earliest expanded query that returned it; and the
\* candidates stand in the order of their first return.
C11_MergeKeepsFirstOccurrence ==
    (last.op = "query" /\ last.results # <<>>) =>
        LET cand == last.all_matches
        IN  /\ { cand[i].rec.id : i \in 1..Len(cand) } = returned_ids
            /\ \A i \in 1..Len(cand), j \in 1..Len(cand) :
                  cand[i].rec.id = cand[j].rec.id => i = j
            /\ \A i \in 1..Len(cand) :
                  cand[i] = match_of(earliest(cand[i].rec.id), cand[i].rec.id)
            /\ \A i \in 1..Len(cand), j \in 1..Len(cand) :
                  earliest(cand[i].rec.id) < earliest(cand[j].rec.id) => i < j

\* an id returned by the first two expanded queries with different scores,
\* and another returned only by a later one
C11_Witness ==
    /\ last.op = "query" /\ Len(last.results) >= 2
    /\ \E id \in returned_ids :
          /\ {1, 2} \subseteq returned_by(id)
          /\ match_of(1, id).score < match_of(2, id).score
    /\ \E id \in returned_ids : 1 \notin returned_by(id)

\* the ids more than one expanded query returned
returned_twice == { id \in returned_ids : Cardinality(returned_by(id)) > 1 }

\* the score kept for an id among the merged candidates
kept_score(id) ==
    (CHOOSE m \in Range(last.all_matches) : m.rec.id = id).score

\* C12, as stated: for an id returned by more than one expanded query, the
\* score kept among the merged candidates is the best score any expansion
\* returned for it.
C12_BestScoreKept ==
    (last.op = "query" /\ last.results # <<>>) =>
        \A id \in returned_twice :
            \A e \in returned_by(id) : match_of(e, id).score <= kept_score(id)

\* C12, amended: for an id returned by more than one expanded query, the
\* score kept among the merged candidates is the score of the earliest
\* expanded query that returned it, whether or not a later one scored it
\* higher; that score decides the threshold test (an id enters the ranked
\* matches only when it is above the threshold) and the confidence of a
\* successful answer is the highest kept score.
C12_FirstScoreKept ==
    (last.op = "query" /\ last.results # <<>>) =>
        /\ \A id \in returned_twice :
              /\ kept_score(id) = match_of(earliest(id), id).score
              /\ (\E m \in Range(last.top_matches) : m.rec.id = id)
                    => kept_score(id) > threshold(last.namespace)
        /\ \A m \in Range(last.top_matches) : m.score = kept_score(m.rec.id)
        /\ last.success =>
              /\ \A id \in returned_ids : kept_score(id) <= last.confidence
              /\ \E id \in returned_ids : kept_score(id) = last.confidence

\* an id whose first score is not above the threshold and whose later score
\* is, in a query that succeeded
C12_Witness ==
    /\ last.op = "query" /\ last.success
    /\ \E id \in returned_twice :
          /\ kept_score(id) <= threshold(last.namespace)
          /\ \E e \in returned_by(id) :
                match_of(e, id).score > threshold(last.namespace)
          /\ \A m \in Range(last.top_matches) : m.rec.id # id

(***************************************************************************)
(* Properties of the results of a query.                                   *)
(***************************************************************************)
\* the merged candidates of the latest query that score above the threshold
\* of its namespace
AboveThreshold ==
    { i \in 1..Len(last.all_matches) :
        last.all_matches[i].score > threshold(last.namespace) }

\* every backend call of the latest query returned
Searched ==
    last.op = "query" /\ last.failed = None /\ last.searches > 0

\* C13: a query whose searches return no candidate returns success = false
\* with the 'no relevant information' message; a query with candidates none
\* of which scores above the threshold returns success = false with another
\* message; in both cases sources is empty and confidence is 0, and no
\* other query returns either message.
C13_TwoUnsuccessfulAnswers ==
    Searched =>
        /\ last.all_matches = <<>> =>
              /\ ~last.success
              /\ last.answer =
                    <<"Nao encontrei informacoes relevantes nos documentos.">>
        /\ (last.all_matches # <<>> /\ AboveThreshold = {}) =>
              /\ ~last.success
              /\ last.answer =
                    <<"Nao encontrei informacoes suficientemente relevantes.">>
        /\ AboveThreshold = {} =>
              (Len(last.sources) = 0 /\ last.confidence = 0 /\ last.chat_calls = 0)
        /\ AboveThreshold # {} =>
              /\ last.success
              /\ last.answer \notin
                    { <<"Nao encontrei informacoes relevantes nos documentos.">>,
                      <<"Nao encontrei informacoes suficientemente relevantes.">> }

\* a query whose candidates all score at or below the threshold, one of
\* them at the threshold
C13_Witness ==
    /\ Searched /\ last.all_matches # <<>> /\ AboveThreshold = {}
    /\ \E i \in 1..Len(last.all_matches) :
          last.all_matches[i].score = threshold(last.namespace)
    /\ ~last.success

\* the document names of the context of the latest query, each once, in the
\* order of the rank of its best-ranked chunk
ranked_names ==
    LET ctx == last.context
        first == { i \in 1..Len(ctx) :
                     \A j \in 1..(i - 1) :
                         source_name(ctx[j].rec) # source_name(ctx[i].rec) }
    IN  [ k \in 1..Cardinality(first) |->
            source_name(ctx[Positions(Len(ctx), first)[k]].rec) ]

\* C14, as stated: the sources of a successful answer hold each document
\* name of the context at most once, in the order of the rank of the
\* document's best chunk, cut to the 5 best-ranked.
C14_SourcesInRankOrder ==
    (last.op = "query" /\ last.success) =>
        last.sources =
            SubSeq(ranked_names, 1,
                   IF Len(ranked_names) < 5 THEN Len(ranked_names) ELSE 5)

\* C15, as stated: a query against a namespace that holds no record returns
\* success = false, in RAGSystem.query and in IsolatedLangChainRAG.query.
C15_EmptyNamespaceIsUnsuccessful ==
    (IsQuery /\ index[last.namespace] = {}) => ~last.success

\* C16: RAGSystem.query returns to its caller whatever backend call fails;
\* when the embedding, the vector-store or the generation call raised, the
\* result has success = false, the fallback answer of the except branch,
\* no sources and confidence 0, and no later backend call was made.
C16_QueryNeverRaises ==
    last.op = "query" =>
        /\ ~last.raised_to_caller
        /\ last.failed # None =>
              /\ ~last.success
              /\ last.answer # None
              /\ Head(last.answer) = "Erro ao processar busca: "
              /\ last.sources = <<>>
              /\ last.confidence = 0
              /\ last.failed[2] = "embeddings.create" =>
                    (last.searches = last.embed_calls - 1 /\ last.chat_calls = 0)
              /\ last.failed[2] = "index.query" => last.chat_calls = 0

\* the generation call of a query failed after its searches found matches
\* above the threshold
C16_Witness ==
    /\ last.op = "query" /\ last.failed # None
    /\ last.failed[2] = "chat.completions.create"
    /\ last.chat_calls = 1 /\ ~last.success

\* the text occurs in the answer
occurs_in(text, answer) ==
    \E i \in 1..Len(answer) :
        /\ i + Len(text) - 1 <= Len(answer)
        /\ SubSeq(answer, i, i + Len(text) - 1) = text

\* C17, as stated: when a backend call of a query failed, the answer returned
\* carries no text of the backend exception.
C17_NoExceptionTextInAnswer ==
    (IsQuery /\ last.failed # None) => ~occurs_in(last.failed, last.answer)

(***************************************************************************)
(* Properties of SpecUpload.                                               *)
(***************************************************************************)
\* the ingestion of the upload failed at an embedding or a vector-store call
backend_failed ==
    /\ last.op = "upload" /\ last.ingest.op = "ingest"
    /\ last.ingest.error \in {"embed", "upsert"}

\* C18, as stated: when the ingestion of an upload fails at an embedding or a
\* vector-store call, process_upload raises an error that is not the one it
\* raises for a document without extractable text.
C18_BackendFailureIsDistinct ==
    backend_failed => (last.raised /\ last.detail # NoTextDetail)

(***************************************************************************)
(* Properties of SpecChat.                                                 *)
(***************************************************************************)
\* the calls of chat.completions.create that raised
failed_calls == { k \in 1..Len(last.calls) : ~last.calls[k].ok }

\* C19: _call_openai calls the models in their listed order, a model only
\* after every earlier model failed; it returns the answer and the name of
\* the first model that succeeds; when every model failed, process_message
\* returns success = false.
C19_FallbackChain ==
    last.op = "chat" =>
        LET n == Len(last.calls)
        IN  /\ n <= Len(models)
            /\ \A k \in 1..n : last.calls[k].model = models[k].model
            /\ \A k \in 1..(n - 1) : k \in failed_calls
            /\ last.pc = "calling" => failed_calls = 1..n
            /\ (last.pc = "returned" /\ last.success) =>
                  /\ n >= 1 /\ last.calls[n].ok
                  /\ last.model = <<models[n].model>>
                  /\ last.answer = content_of(models[n].model)
            /\ (last.pc = "returned" /\ failed_calls = 1..Len(models)) =>
                  ~last.success

\* the last model of the chain answers after the three before it failed
C19_Witness ==
    /\ last.op = "chat" /\ last.pc = "returned" /\ last.success
    /\ Len(last.calls) = Len(models)
    /\ last.model = <<"gpt-3.5-turbo">>

(***************************************************************************)
(* Properties of SpecSingleton.                                            *)
(***************************************************************************)
\* C20, as stated: under any interleaving of concurrent calls of an
\* accessor, its constructor completes at most once, every call returns the
\* same instance, and an instance once assigned is never replaced.
C20_SingletonLifecycle ==
    last.op = "get_or_create" =>
        \A a \in Accessors :
            /\ last.constructed[a] <= 1
            /\ Cardinality(last.returned[a]) <= 1
            /\ ~last.replaced[a]

(***************************************************************************)
(* Properties of SpecAudit.                                                *)
(***************************************************************************)
\* C21, as stated: an endpoint writes a Query row only when the result of
\* the pipeline has success = true, and at most one row per request.
C21_RowOnlyAfterSuccess ==
    last.op = "api_query" =>
        /\ last.written <= 1
        /\ last.written = 1 => (last.result # NoCall /\ last.result.success)

(***************************************************************************)
(* Properties of SpecNamespace.                                            *)
(***************************************************************************)
\* C22: no other pair of ids has the namespace of the pair of the call, and
\* the namespace is user_0_cond_0 only for the pair (0, 0).
C22_NamespaceInjective ==
    last.op = "namespace_for" =>
        /\ \A s \in Ids, c \in Ids :
              <<s, c>> # <<last.sindico_id, last.condo_id>> =>
                  namespace_name(s, c) # last.namespace
        /\ last.namespace = "user_0_cond_0" <=>
              (last.sindico_id = 0 /\ last.condo_id = 0)

\* a pair whose digits, run together, are those of another pair
C22_Witness ==
    /\ last.op = "namespace_for"
    /\ last.sindico_id = 1 /\ last.condo_id = 11
    /\ last.namespace = "user_1_cond_11"

(***************************************************************************)
(* Properties of SpecChunks.                                               *)
(***************************************************************************)
\* ceil(len(text) / (chunk_size - overlap)) of the call
chunk_bound ==
    (Len(last.text) + (last.chunk_size - last.overlap) - 1)
        \div (last.chunk_size - last.overlap)

within_chunk_bound ==
    last.op = "create_chunks" =>
        (last.iterations <= chunk_bound /\ Len(last.chunks) <= chunk_bound)

\* C23: every call of _create_chunks with chunk_size > overlap >= 0 leaves
\* its loop, and it never holds more than
\* ceil(len(text) / (chunk_size - overlap)) chunks.
C23_SplitTerminatesWithinBound ==
    /\ []within_chunk_bound
    /\ InLoop ~> (last.op = "create_chunks" /\ last.pc = "returned")

\* a call with overlapping windows that has returned four chunks
C23_Witness ==
    /\ last.op = "create_chunks" /\ last.pc = "returned"
    /\ last.overlap > 0
    /\ Len(last.chunks) = 4 /\ last.iterations = 4

(***************************************************************************)
(* Properties of SpecChunkers.                                             *)
(***************************************************************************)
\* C24, as stated: every chunk a chunker returns is a non-empty string.
C24_NoEmptyChunk ==
    /\ last.op \in {"create_chunks", "create_chunks_tokenless"} =>
          \A i \in 1..Len(last.chunks) : last.chunks[i] # <<>>
    /\ last.op = "create_structured_chunks" =>
          \A i \in 1..Len(last.chunks) : last.chunks[i].text # <<>>

\* the positions of the "Art. N" markers of the text split, in text order
art_positions ==
    SelectSeq([ i \in 1..Len(last.text) |-> i ],
              LAMBDA i : last.text[i].kind = "Art")

\* a legal text with three "Art. N" markers whose sections are each within
\* the size ceiling
three_articles ==
    /\ last.op = "create_structured_chunks" /\ last.doc_type \in LegalTypes
    /\ Len(art_positions) = 3
    /\ LET sections == re_split(last.text)
       IN  \A k \in 1..Len(sections) : length(sections[k]) <= section_ceiling

\* three units of chunk_type article, in text order, each with the number
\* of its marker
three_article_units ==
    /\ Len(last.chunks) = 3
    /\ \A k \in 1..3 :
          /\ last.chunks[k].chunk_type = "article"
          /\ last.chunks[k].article_num = <<last.text[art_positions[k]].num>>
          /\ Head(last.chunks[k].text) = last.text[art_positions[k]]

\* C27, as stated: a legal text with three "Art. N" markers and sections
\* within the ceiling is split into exactly three article units, in text
\* order, each tagged with the number of its marker.
C27_ThreeMarkersThreeUnits == three_articles => three_article_units

\* C27, amended: the same when the text has no marker of another kind and
\* only blanks before its first "Art. N" marker.
C27_ThreeArticlesOnly ==
    ( /\ three_articles
      /\ \A i \in 1..Len(last.text) : last.text[i].kind # "paragraph sign"
      /\ \A i \in 1..(art_positions[1] - 1) : is_space(last.text[i]) )
        => three_article_units

\* three articles, two of them with a body, after a leading blank
C27_Witness ==
    /\ three_articles /\ three_article_units
    /\ last.text[1].kind = "blank"
    /\ Len(last.chunks[1].text) = 2 /\ Len(last.chunks[2].text) = 1

(***************************************************************************)
(* Properties of SpecQuestions.                                            *)
(***************************************************************************)
\* C25: _expand_query returns at most 5 queries, pairwise distinct, the
\* first of them the question as it was given.
C25_ExpansionBoundedAndAnchored ==
    last.op = "expand_query" =>
        /\ Len(last.queries) \in 1..5
        /\ \A i, j \in 1..Len(last.queries) :
              last.queries[i] = last.queries[j] => i = j
        /\ last.queries[1] = last.query

\* a lookup question with capitals and two terms of the synonyms: seven
\* variations cut to five
C25_Witness ==
    /\ last.op = "expand_query" /\ last.type = "lookup"
    /\ last.query = <<"Multa", "animal", "x">>
    /\ Len(last.queries) = 5
    /\ last.queries[4] = <<"multa", "pet", "x">>

\* the rules that find a word in the question classified
matching_rules ==
    { k \in 1..Len(rules) : re_search(rules[k], lower(last.query)) }

\* C26: the class is that of the first rule, in the order lookup,
\* interpretative, comparative, procedural, temporal, that matches the
\* question, and general exactly when no rule matches.
C26_FirstMatchingRuleWins ==
    last.op = "classify_query" =>
        /\ [ k \in 1..Len(rules) |-> rules[k].type ] =
              <<"lookup", "interpretative", "comparative", "procedural", "temporal">>
        /\ last.type = "general" <=> matching_rules = {}
        /\ matching_rules # {} =>
              \E k \in matching_rules :
                  /\ \A m \in matching_rules : k <= m
                  /\ last.type = rules[k].type

\* a question with capitals that the lookup and the interpretative rule match
C26_Witness ==
    /\ last.op = "classify_query"
    /\ last.query = <<"pode", "Art. 5">>
    /\ last.type = "lookup"

(***************************************************************************)
(* Properties of SpecConcurrent.                                           *)
(***************************************************************************)
both_finished ==
    last.op = "concurrent_ingest" /\ \A p \in Ingestions : last.pc[p] = "done"

\* the records the namespace holds of the chunk at position i
records_of_chunk(i) ==
    { r \in index[namespace_for(last.sindico_id, last.condo_id)] :
        r.doc_id = last.call.doc_id /\ r.text = last.doc.chunks[i] }

C29_DocumentLimit == last.op = "uploads" => last.documents <= doc_limit

(***************************************************************************)
(* Properties of SpecHistory.                                              *)
(***************************************************************************)
\* C30, as stated: at the end of every call of process_message the
\* conversation_history holds at most MAX_HISTORY messages.
C30_HistoryBounded ==
    (last.op = "chat" /\ last.pc = "returned") =>
        Len(last.conversation_history) <= MAX_HISTORY

====
